---------------------------- MODULE Spec2Model ----------------------------
(***************************************************************************)
(* State-machine model of src/cassette/main.js: the seeded placement of    *)
(* ten convex shapes inside the world bounds and the fixed-step rigid-body *)
(* simulation that animates them.                                          *)
(*                                                                         *)
(* Numbers.  The program computes in IEEE doubles.  The model computes in  *)
(* fixed point: a length, an angle (radians), a velocity (units/s) or an   *)
(* angular velocity (rad/s) q is the integer q * Scale, and a product or   *)
(* quotient is rounded toward zero.  Time is counted in units of 0.1 ms.   *)
(***************************************************************************)
EXTENDS Integers, Sequences, FiniteSets, Bags, TLC

VARIABLES
    bodies,                 \* the registry: the body records in insertion order
    physicsEnabled,         \* TRUE = running, FALSE = paused
    nextBodyId,             \* the id registerBody hands out next
    colorTransferEnabled,   \* the colour button's toggle
    draggedBody,            \* 0 = null, i = bodies[i], Stale = a body that left the registry
    dragOffset,             \* _dragOffset of draggedBody
    lastDragPos,            \* NoPos = null, or the last drag position
    pointerPos,             \* where the latest pointer event was, in world coordinates
    view,                   \* the window: index into HalfWidths (camera.aspect)
    worldBoundsX,
    worldBoundsY,
    lastTime,               \* NoTime = null, 0 = the time of the latest frame
    accumulator,            \* unspent frame time
    pc,                     \* where the single thread is: load, build, idle, frame
    build,                  \* the running createShapes: its seed and its next shape
    compositions,           \* history: per seed and window, the first finished build
    issued,                 \* history: the ids handed out so far
    last,                   \* history: the latest operation and the state before it
    budget                  \* the operations left: builds, inputs, frames

Scale == 10 ^ 4

Abs(a) == IF a < 0 THEN -a ELSE a
Min(a, b) == IF a < b THEN a ELSE b
Max(a, b) == IF a > b THEN a ELSE b

\* a / b rounded toward zero (b > 0)
Quot(a, b) == IF a >= 0 THEN a \div b ELSE -((-a) \div b)
\* a / b rounded to the nearest integer (b > 0)
QuotR(a, b) == IF a >= 0 THEN (a + b \div 2) \div b ELSE -((-a + b \div 2) \div b)
\* a * b / Scale for a >= b >= 0 by long multiplication, so that no
\* intermediate product outgrows the integer width
MulPos(a, b) == (a \div Scale) * b + ((a % Scale) * b) \div Scale
\* the product of two fixed-point numbers
Mul(a, b) ==
    IF (a < 0) = (b < 0) THEN MulPos(Max(Abs(a), Abs(b)), Min(Abs(a), Abs(b)))
    ELSE -MulPos(Max(Abs(a), Abs(b)), Min(Abs(a), Abs(b)))
\* a / b = a * Scale / b by long division, two decimal digits at a time, so
\* that no intermediate product outgrows the integer width (a >= 0, b > 0)
DivPos(a, b) ==
    (a \div b) * Scale + (((a % b) * 100) \div b) * 100 + ((((a % b) * 100) % b) * 100) \div b
\* the quotient of two fixed-point numbers
Div(a, b) == IF (a < 0) = (b < 0) THEN DivPos(Abs(a), Abs(b)) ELSE -DivPos(Abs(a), Abs(b))

\* one Newton step of the integer square root of n, from r above it
SqrtStep(n, r) == IF (r + n \div r) \div 2 >= r THEN r ELSE (r + n \div r) \div 2

\* a power of two in (sqrt(n), 2 * sqrt(n)]
SqrtGuess(n) ==
    IF n < 4 THEN 2 ELSE IF n < 16 THEN 4 ELSE IF n < 64 THEN 8
    ELSE IF n < 256 THEN 16 ELSE IF n < 1024 THEN 32 ELSE IF n < 4096 THEN 64
    ELSE IF n < 16384 THEN 128 ELSE IF n < 65536 THEN 256
    ELSE IF n < 262144 THEN 512 ELSE IF n < 1048576 THEN 1024
    ELSE IF n < 4194304 THEN 2048 ELSE IF n < 16777216 THEN 4096
    ELSE IF n < 67108864 THEN 8192 ELSE IF n < 268435456 THEN 16384
    ELSE IF n < 1073741824 THEN 32768 ELSE 46341

\* floor of the square root of a natural number: six Newton steps from above
ISqrt(n) ==
    IF n <= 0 THEN 0
    ELSE SqrtStep(n, SqrtStep(n, SqrtStep(n, SqrtStep(n, SqrtStep(n,
             SqrtStep(n, SqrtGuess(n)))))))

\* the length of (a, b) divided by k first, so that the sum of squares fits
\* the integer width
HypotBy(a, b, k) == k * ISqrt(Quot(a, k) * Quot(a, k) + Quot(b, k) * Quot(b, k))
\* Math.hypot on fixed-point numbers
Hypot(a, b) == HypotBy(a, b, ((Max(Max(Abs(a), Abs(b)), 1) - 1) \div 30000) + 1)

\* Math.sqrt on a fixed-point number
Sqrt(a) == IF a <= 200000 THEN ISqrt(a * Scale) ELSE 100 * ISqrt(a)

Pi == 31416
TwoPi == 62832
HalfPi == 15708

\* sine of a, 0 <= a <= HalfPi, by its Taylor polynomial of degree 9 in
\* Horner form; a2 is a * a
SinHorner(a, a2) ==
    QuotR(a * (Scale - QuotR(a2 * (Scale - QuotR(a2 * (Scale - QuotR(a2 *
        (Scale - QuotR(a2, 72)), 42 * Scale)), 20 * Scale)), 6 * Scale)), Scale)
SinPoly(a) == SinHorner(a, QuotR(a * a, Scale))

\* sine of r, 0 <= r < TwoPi
SinTurn(r) ==
    IF r <= HalfPi THEN SinPoly(r)
    ELSE IF r <= Pi THEN SinPoly(Pi - r)
    ELSE IF r <= Pi + HalfPi THEN -SinPoly(r - Pi)
    ELSE -SinPoly(TwoPi - r)
\* Math.sin and Math.cos on fixed-point radians
Sin(a) == SinTurn(a % TwoPi)
Cos(a) == SinTurn((a + HalfPi) % TwoPi)

-----------------------------------------------------------------------------
(* Polygon helpers (main.js 61-158) *)

Vec(a, b) == [x |-> a, y |-> b]

\* the rotation half of transformVerts: (lx * cos - ly * sin, lx * sin + ly * cos)
rotateBy(localVerts, cos, sin) ==
    [i \in 1..Len(localVerts) |->
        Vec(Quot(localVerts[i].x * cos - localVerts[i].y * sin, Scale),
            Quot(localVerts[i].x * sin + localVerts[i].y * cos, Scale))] \o <<>>
rotateVerts(localVerts, rot) == rotateBy(localVerts, Cos(rot), Sin(rot))

\* the translation half of transformVerts
translateVerts(rotVerts, posX, posY) ==
    [i \in 1..Len(rotVerts) |-> Vec(rotVerts[i].x + posX, rotVerts[i].y + posY)] \o <<>>

\* transformVerts: rotate by rot, then translate by (posX, posY)
transformVerts(localVerts, posX, posY, rot) ==
    translateVerts(rotateVerts(localVerts, rot), posX, posY)

\* the least element of a non-empty set of integers
SetMin(S) == CHOOSE m \in S : \A e \in S : m <= e

Infinity == 2000000000
NoAxis == Vec(0, 0)

\* the extrema << min, max >> of the unscaled dot products of the vertices
\* with the axis (ax, ay), the array being non-empty
ProjRaw(verts, ax, ay) ==
    << SetMin({verts[i].x * ax + verts[i].y * ay : i \in 1..Len(verts)}),
       -SetMin({-(verts[i].x * ax + verts[i].y * ay) : i \in 1..Len(verts)}) >>

\* the interval of the scaled dot products from the extrema of the raw ones
interval(raw) == [min |-> Quot(raw[1], Scale), max |-> Quot(raw[2], Scale)]

\* projectOntoAxis: the interval of the dot products
projectOntoAxis(verts, axis) == interval(ProjRaw(verts, axis.x, axis.y))

overlapIntervals(a, b) == Min(a.max, b.max) - Max(a.min, b.min)

\* the axis (-ey, ex) / len of checkAxes; NoAxis for an edge of length 0
unitNormal(ex, ey, len) ==
    IF len = 0 THEN NoAxis ELSE Vec(Quot(-ey * Scale, len), Quot(ex * Scale, len))
normalOf(ex, ey) == unitNormal(ex, ey, Hypot(-ey, ex))
\* the unit normal of the edge from verts[i] to its successor
edgeNormal(verts, i) ==
    normalOf(verts[(i % Len(verts)) + 1].x - verts[i].x,
             verts[(i % Len(verts)) + 1].y - verts[i].y)

\* A polygon is its vertex array together with what checkAxes derives from
\* that array alone: the normal of every edge and the extrema of the
\* polygon's own dot products with that normal.
polygonWith(verts, normals) ==
    [verts |-> verts, normals |-> normals,
     span |-> [i \in 1..Len(verts) |->
                 ProjRaw(verts, normals[i].x, normals[i].y)] \o <<>>]
polygon(verts) == polygonWith(verts, [i \in 1..Len(verts) |-> edgeNormal(verts, i)] \o <<>>)

\* the polygon of the vertices moved by (dx, dy): the edges and so the
\* normals are the same, every dot product grows by (dx, dy) . normal
movePolygon(p, dx, dy) ==
    [verts |-> translateVerts(p.verts, dx, dy), normals |-> p.normals,
     span |-> [i \in 1..Len(p.verts) |->
                 << p.span[i][1] + dx * p.normals[i].x + dy * p.normals[i].y,
                    p.span[i][2] + dx * p.normals[i].x + dy * p.normals[i].y >>] \o <<>>]

\* the overlap of the projections of both polygons on the axis p1.normals[i]
axisOverlap(p1, p2, i) ==
    overlapIntervals(interval(p1.span[i]), projectOntoAxis(p2.verts, p1.normals[i]))

\* checkAxes returns false: some edge normal of p1 separates the polygons
\* (an edge of length 0 has no normal and is skipped)
separates(p1, p2) ==
    \E i \in 1..Len(p1.verts) : p1.normals[i] # NoAxis /\ axisOverlap(p1, p2, i) <= 0

\* the overlaps that checkAxes compares with minOverlap, edge by edge
overlaps(p1, p2) ==
    [i \in 1..Len(p1.verts) |->
        IF p1.normals[i] = NoAxis THEN Infinity ELSE axisOverlap(p1, p2, i)] \o <<>>

NoHit == [hit |-> FALSE, normal |-> NoAxis, depth |-> 0]

\* minOverlap and bestAxis after both passes of checkAxes, none separating:
\* the least overlap, and the first axis in loop order that has it ("if
\* (o < minOverlap)" keeps the earlier of equal overlaps)
leastOf(axes, os, least) ==
    [hit |-> TRUE, normal |-> axes[SetMin({i \in 1..Len(os) : os[i] = least})],
     depth |-> least]
leastOverlap(axes, os) == leastOf(axes, os, SetMin({os[i] : i \in 1..Len(os)}))

\* polygonPolygonSAT: null (NoHit) or the axis of minimum overlap and its depth
polygonPolygonSAT(polyA, polyB) ==
    IF separates(polyA, polyB) \/ separates(polyB, polyA) THEN NoHit
    ELSE leastOverlap(polyA.normals \o polyB.normals,
                      overlaps(polyA, polyB) \o overlaps(polyB, polyA))

-----------------------------------------------------------------------------
(* Deterministic RNG, Mulberry32 (main.js 221-237).  A 32-bit word is the   *)
(* pair <<high 16 bits, low 16 bits>>; a seed string is the sequence of its *)
(* character codes.                                                         *)

W16 == 65536

\* a ^ b on 4 bits, bit by bit
Xor4 ==
    [i \in 0..15 |->
        [j \in 0..15 |->
            ((i + j) % 2) + 2 * (((i \div 2) + (j \div 2)) % 2)
            + 4 * (((i \div 4) + (j \div 4)) % 2) + 8 * (((i \div 8) + (j \div 8)) % 2)]]
\* a ^ b on 16 bits, four bits at a time
Xor16(a, b) ==
    Xor4[a % 16][b % 16] + 16 * Xor4[(a \div 16) % 16][(b \div 16) % 16]
    + 256 * Xor4[(a \div 256) % 16][(b \div 256) % 16]
    + 4096 * Xor4[a \div 4096][b \div 4096]

Xor32(a, b) == << Xor16(a[1], b[1]), Xor16(a[2], b[2]) >>
\* a | b on 16 bits: a + b - (a & b), with a & b = (a + b - (a ^ b)) / 2
Or16(a, b) == a + b - ((a + b - Xor16(a, b)) \div 2)
Add32(a, b) ==
    << (a[1] + b[1] + (a[2] + b[2]) \div W16) % W16, (a[2] + b[2]) % W16 >>
\* a >>> k
Shr32(a, k) ==
    IF k >= 16 THEN << 0, a[1] \div (2 ^ (k - 16)) >>
    ELSE << a[1] \div (2 ^ k), (a[2] \div (2 ^ k)) + (a[1] % (2 ^ k)) * (2 ^ (16 - k)) >>
\* a << k, 0 < k < 16
Shl32(a, k) ==
    << (a[1] % (2 ^ (16 - k))) * (2 ^ k) + a[2] \div (2 ^ (16 - k)),
       (a[2] % (2 ^ (16 - k))) * (2 ^ k) >>
\* the low 16 bits of the product of two 16-bit numbers
MulLo16(p, q) == ((p % 256) * q + (((p \div 256) * q) % 256) * 256) % W16
\* the 32-bit product of two 16-bit numbers, from the products of the low
\* and of the high byte of p with q
MulParts(p0, p1) ==
    << p1 \div 256 + (p0 + (p1 % 256) * 256) \div W16, (p0 + (p1 % 256) * 256) % W16 >>
MulFull16(p, q) == MulParts((p % 256) * q, (p \div 256) * q)
\* Math.imul
ImulSum(f, a, b) ==
    << (f[1] + MulLo16(a[1], b[2]) + MulLo16(a[2], b[1])) % W16, f[2] >>
Imul(a, b) == ImulSum(MulFull16(a[2], b[2]), a, b)

\* 1779033703, 3432918353 and 0x6d2b79f5 as 32-bit words
HashInit == << 27145, 58983 >>
HashMul == << 52382, 11601 >>
MulberryInc == << 27947, 31221 >>

\* (h << 13) | (h >>> 19)
Rotl13(h) == << Shl32(h, 13)[1] + Shr32(h, 19)[1], Shl32(h, 13)[2] + Shr32(h, 19)[2] >>

\* the loop of createRng over the characters of the seed
RECURSIVE HashSeed(_, _, _)
HashSeed(seedStr, i, h) ==
    IF i > Len(seedStr) THEN h
    ELSE HashSeed(seedStr, i + 1,
                  Rotl13(Imul(Xor32(h, << 0, seedStr[i] >>), HashMul)))

\* createRng: the generator's state h after hashing the seed string
createRng(seedStr) == HashSeed(seedStr, 1, Xor32(HashInit, << 0, Len(seedStr) >>))

\* the three statements of mulberry32 after h += 0x6d2b79f5
MulberryT1(h1) == Imul(Xor32(h1, Shr32(h1, 15)), << h1[1], Or16(h1[2], 1) >>)
MulberryT2(t1) ==
    Xor32(Add32(t1, Imul(Xor32(t1, Shr32(t1, 7)), << t1[1], Or16(t1[2], 61) >>)), t1)
MulberryOut(h1, t2) == [h |-> h1, u |-> Xor32(t2, Shr32(t2, 14))]
MulberryDraw(h1) == MulberryOut(h1, MulberryT2(MulberryT1(h1)))

\* mulberry32: one draw; [h |-> the new state, u |-> the 32-bit numerator of
\* the returned float u / 2^32]
mulberry32(h) == MulberryDraw(Add32(h, MulberryInc))

\* the generator's state after n draws: every draw adds 0x6d2b79f5
advance(h, n) == Add32(h, Imul(<< 0, n >>, MulberryInc))

\* the float u / 2^32 as a fixed-point number in [0, Scale)
RngFix(u) == (u[1] * Scale + (u[2] * Scale) \div W16) \div W16
\* Math.floor(rng() * n) for a small natural n
RngFloor(u, n) == (u[1] * n + (u[2] * n) \div W16) \div W16

-----------------------------------------------------------------------------
(* The shapes of a composition (createShapes, main.js 791-1002) *)

COLOR_PRESETS == 10
segments == 20
samplesPerBody == 96
margin == 10
marginLocal == 10
satTolerance == 20
idealGap == 3
rectAttempts == 12
triAttempts == 10

\* the calls addCircle(r), addSquare(s), addTriangle(s), addRect(w, h) of
\* createShapes, in source order
ShapeCalls ==
    << [kind |-> "circle", a |-> 3000,  b |-> 0],
       [kind |-> "rect",   a |-> 3000,  b |-> 3000],
       [kind |-> "tri",    a |-> 3000,  b |-> 0],
       [kind |-> "rect",   a |-> 10000, b |-> 2000],
       [kind |-> "circle", a |-> 6500,  b |-> 0],
       [kind |-> "rect",   a |-> 8000,  b |-> 8000],
       [kind |-> "rect",   a |-> 10000, b |-> 4000],
       [kind |-> "tri",    a |-> 10000, b |-> 0],
       [kind |-> "circle", a |-> 8000,  b |-> 0],
       [kind |-> "rect",   a |-> 12000, b |-> 12000] >>

NumShapes == 10

\* localVerts of addCircle, addRect and addTriangle
circleVerts(radius) ==
    [i \in 1..segments |->
        Vec(Mul(Cos(Quot((i - 1) * TwoPi, segments)), radius),
            Mul(Sin(Quot((i - 1) * TwoPi, segments)), radius))] \o <<>>
rectCorners(hw, hh) == << Vec(-hw, -hh), Vec(hw, -hh), Vec(hw, hh), Vec(-hw, hh) >>
rectVerts(width, height) == rectCorners(Quot(width, 2), Quot(height, 2))
triCorners(size, w, hh) == << Vec(0, size), Vec(-w, -hh), Vec(w, -hh) >>
triVerts(size) == triCorners(size, Mul(size, 8660), Quot(size, 2))

\* the largest distance of a vertex from the local origin
RECURSIVE MaxVertexDist(_, _)
MaxVertexDist(verts, i) ==
    IF i = 0 THEN 0
    ELSE Max(Hypot(verts[i].x, verts[i].y), MaxVertexDist(verts, i - 1))

\* the geometry a shape call hands to placeMesh: localVerts, boundingRadius,
\* contactRadius, shapeType and the number of rotation attempts
geometry(kind, verts, br, cr, maxAttempts) ==
    [shapeType |-> kind, localVerts |-> verts, boundingRadius |-> br,
     contactRadius |-> cr, maxAttempts |-> maxAttempts]
polyGeometry(c, verts, br) ==
    IF c.kind = "rect"
    THEN geometry(c.kind, verts, br, Mul(Min(Quot(c.a, 2), Quot(c.b, 2)), 7000), rectAttempts)
    ELSE geometry(c.kind, verts, br, Mul(br, 6000), triAttempts)
polyShape(c, verts) == polyGeometry(c, verts, MaxVertexDist(verts, Len(verts)))
ShapeGeometry(c) ==
    IF c.kind = "circle" THEN geometry(c.kind, circleVerts(c.a), c.a, c.a, 1)
    ELSE polyShape(c, IF c.kind = "rect" THEN rectVerts(c.a, c.b) ELSE triVerts(c.a))

Shapes == [k \in 1..NumShapes |-> ShapeGeometry(ShapeCalls[k])] \o <<>>

\* getWorldVertices
getWorldVertices(body) ==
    transformVerts(Shapes[body.shape].localVerts, body.x, body.y, body.rot)

\* the polygon of a body in world space
bodyPolygon(body) == polygon(getWorldVertices(body))

-----------------------------------------------------------------------------
(* placeMesh (main.js 423-789).  m is the mesh being placed: its shape      *)
(* index, shapeType, radii, rotation and colorIndex; bx, by are the world   *)
(* bounds.  The result is [ok, x, y].                                       *)

NoCand == [ok |-> FALSE, x |-> 0, y |-> 0, contacts |-> 0, score |-> 0]

\* the circle-circle placement test of evaluateCandidate: too much
\* intersection when d < ideal - 3%
circleTooClose(d, ideal) == d < ideal - Mul(ideal, 300)

\* the polygon branch of the intersection test
satTooDeepLax(result) == result.hit /\ result.depth > 50 * satTolerance
satTooDeep(result) == result.hit /\ result.depth > satTolerance

\* the intersection test of evaluateCandidate against one existing body
candidateIntersects(body, bodyPoly, m, x, y) ==
    IF m.shapeType = "circle" /\ body.shapeType = "circle"
    THEN circleTooClose(Hypot(body.x - x, body.y - y),
                        body.contactRadius + m.contactRadius)
    ELSE satTooDeep(polygonPolygonSAT(bodyPoly, movePolygon(m.rotPoly, x, y)))

\* the contact loop of evaluateCandidate from the centre distances ds[i]
\* and the gaps gaps[i] = |ds[i] - idealContact| of the bodies:
\* [contacts, minCenterDist, minGap]
contactsOf(bs, cr, ds, gaps) ==
    [contacts |-> Cardinality({i \in 1..Len(bs) :
                                gaps[i] <= Mul(bs[i].contactRadius + cr, 300)}),
     minCenterDist |-> SetMin({Infinity} \cup {ds[i] : i \in 1..Len(bs)}),
     minGap |-> SetMin({Infinity} \cup {gaps[i] : i \in 1..Len(bs)})]
contactGaps(bs, cr, ds) ==
    contactsOf(bs, cr, ds,
               [i \in 1..Len(bs) |-> Abs(ds[i] - (bs[i].contactRadius + cr))] \o <<>>)
\* the contact statistics of evaluateCandidate at (x, y)
contactStats(bs, m, x, y) ==
    contactGaps(bs, m.contactRadius,
                [i \in 1..Len(bs) |-> Hypot(bs[i].x - x, bs[i].y - y)] \o <<>>)

vertexInBounds(vx, vy, bx, by) ==
    ~(vx < -bx + margin \/ vx > bx - margin \/ vy < -by + margin \/ vy > by - margin)

\* the candidate that evaluateCandidate returns, from its contact statistics
scored(x, y, st) ==
    [ok |-> TRUE, x |-> x, y |-> y, contacts |-> st.contacts,
     score |-> Abs(st.minGap - idealGap) + Mul(st.minCenterDist, 200)]

\* evaluateCandidate: null (NoCand) or the candidate with its contacts and
\* score.  m.rotPoly is the polygon of the mesh's localVerts turned by
\* mesh.rotation.z, which placeMesh never changes, so that candidateVerts =
\* transformVerts(localVerts, x, y, rot) is that polygon moved by (x, y);
\* worldVerts[i] is the polygon of getWorldVertices(bodies[i])
evaluateCandidate(bs, worldVerts, m, bx, by, x, y) ==
    IF \E i \in 1..Len(m.rotPoly.verts) :
           ~vertexInBounds(m.rotPoly.verts[i].x + x, m.rotPoly.verts[i].y + y, bx, by)
    THEN NoCand
    ELSE IF \E i \in 1..Len(bs) : candidateIntersects(bs[i], worldVerts[i], m, x, y)
    THEN NoCand
    ELSE scored(x, y, contactStats(bs, m, x, y))

IsCand(c) == c.ok

\* the points (x0 + rx, y0 + ry) and (x0 - rx, y0 - ry) of a tangent pair
tangentPair(x0, y0, rx, ry) == << Vec(x0 + rx, y0 + ry), Vec(x0 - rx, y0 - ry) >>
\* the pair from the unit vector (ex, ey) between the centres, the foot aLen
\* along it and the height h over it
tangentFrom(a, ex, ey, aLen, h) ==
    tangentPair(a.x + Mul(ex, aLen), a.y + Mul(ey, aLen), -Mul(ey, h), Mul(ex, h))
tangentHeight(a, ex, ey, aLen, h2) ==
    IF h2 < 0 THEN <<>> ELSE tangentFrom(a, ex, ey, aLen, Sqrt(h2))
tangentFoot(a, ex, ey, RA, aLen) ==
    tangentHeight(a, ex, ey, aLen, Mul(RA, RA) - Mul(aLen, aLen))
tangentAt(a, dx, dy, d, RA, RB) ==
    IF d = 0 \/ d > RA + RB \/ d < Abs(RA - RB) THEN <<>>
    ELSE tangentFoot(a, Div(dx, d), Div(dy, d), RA,
                     Div(Mul(RA, RA) - Mul(RB, RB) + Mul(d, d), 2 * d))

\* the two points tangent to bodies a and b (circle-circle intersection of
\* the contact circles grown by the new contact radius), or none
tangentPoints(a, b, cr) ==
    tangentAt(a, b.x - a.x, b.y - a.y, Hypot(b.x - a.x, b.y - a.y),
              a.contactRadius + cr, b.contactRadius + cr)

\* entry k of the tangent points of the bodies i < j, or none
pairPoint(pts, k) == IF k > Len(pts) THEN <<>> ELSE << pts[k] >>
pairPoints(bs, cr, i, j, k) ==
    IF i >= j THEN <<>> ELSE pairPoint(tangentPoints(bs[i], bs[j], cr), k)

\* tier 1: the tangent points of every pair of bodies i < j, in loop order,
\* each as a sequence of one point, the empty sequence where the pair has none
tangentAll(bs, cr) ==
    [n \in 1..(2 * Len(bs) * Len(bs)) |->
        pairPoints(bs, cr, (((n - 1) \div 2) \div Len(bs)) + 1,
                   (((n - 1) \div 2) % Len(bs)) + 1, ((n - 1) % 2) + 1)] \o <<>>
IsPoint(s) == s # <<>>
firstOf(seq) == [n \in 1..Len(seq) |-> seq[n][1]] \o <<>>
twoTangentPoints(bs, cr) == firstOf(SelectSeq(tangentAll(bs, cr), IsPoint))

\* the directions (s / samplesPerBody) * 2 * PI of the ring samples
SampleCos == [s \in 1..samplesPerBody |-> Cos(Quot(TwoPi * (s - 1), samplesPerBody))] \o <<>>
SampleSin == [s \in 1..samplesPerBody |-> Sin(Quot(TwoPi * (s - 1), samplesPerBody))] \o <<>>

\* sample s of the ring of radius R around body
ringPoint(body, s, R) ==
    Vec(body.x + Mul(SampleCos[s], R), body.y + Mul(SampleSin[s], R))

\* tier 2: 96 samples on the circle of radius body.contactRadius + contactRadius
\* around every body
ringPoints(bs, cr) ==
    [k \in 1..(Len(bs) * samplesPerBody) |->
        ringPoint(bs[((k - 1) \div samplesPerBody) + 1],
                  ((k - 1) % samplesPerBody) + 1,
                  bs[((k - 1) \div samplesPerBody) + 1].contactRadius + cr)] \o <<>>

\* the number of grid lines from -b + cr to b - cr at the given step
gridCount(b, cr, step) == IF b - cr < -b + cr THEN 0 ELSE ((2 * (b - cr)) \div step) + 1

gridOf(bx, by, cr, step, cols, rows) ==
    [k \in 1..(rows * cols) |->
        Vec(-bx + cr + ((k - 1) % cols) * step,
            -by + cr + ((k - 1) \div cols) * step)] \o <<>>
gridAt(bx, by, cr, step) ==
    gridOf(bx, by, cr, step, gridCount(bx, cr, step), gridCount(by, cr, step))
\* tier 3: the grid over the world bounds at step 0.6 * contactRadius
gridPoints(bx, by, cr) == gridAt(bx, by, cr, Mul(cr, 6000))

\* the points that tier 1, 2 or 3 of placeMesh tries, in generation order
tierPointsRingFirst(bs, cr, bx, by, tier) ==
    IF tier = 2 THEN (IF Len(bs) >= 2 THEN twoTangentPoints(bs, cr) ELSE <<>>)
    ELSE IF tier = 1 THEN ringPoints(bs, cr)
    ELSE gridPoints(bx, by, cr)
tierPoints(bs, cr, bx, by, tier) ==
    IF tier = 1 THEN (IF Len(bs) >= 2 THEN twoTangentPoints(bs, cr) ELSE <<>>)
    ELSE IF tier = 2 THEN ringPoints(bs, cr)
    ELSE gridPoints(bx, by, cr)

\* the candidates among the points: those that evaluateCandidate accepts
evaluateAll(bs, worldVerts, m, bx, by, pts) ==
    SelectSeq([k \in 1..Len(pts) |->
                  evaluateCandidate(bs, worldVerts, m, bx, by, pts[k].x, pts[k].y)] \o <<>>,
              IsCand)

\* the candidates of a tier unless the tiers before it have found some
orTier(found, bs, worldVerts, m, bx, by, tier) ==
    IF found # <<>> THEN found
    ELSE evaluateAll(bs, worldVerts, m, bx, by,
                     tierPoints(bs, m.contactRadius, bx, by, tier))

\* the candidates array after the three tiers: a tier is tried only when
\* those before it have found nothing
generateCandidates(bs, worldVerts, m, bx, by) ==
    orTier(orTier(orTier(<<>>, bs, worldVerts, m, bx, by, 1),
                  bs, worldVerts, m, bx, by, 2),
           bs, worldVerts, m, bx, by, 3)

\* the better of two indices into candidates, 0 being none (the loop
\* "if (c.score < bestScore)" keeps the earliest of equal scores)
betterOrLater(candidates, l, r) ==
    IF l = 0 THEN r
    ELSE IF r = 0 THEN l
    ELSE IF candidates[r].score <= candidates[l].score THEN r ELSE l
better(candidates, l, r) ==
    IF l = 0 THEN r
    ELSE IF r = 0 THEN l
    ELSE IF candidates[r].score < candidates[l].score THEN r ELSE l

\* index of the first candidate of least score among candidates[lo..hi] with
\* contacts >= required, 0 when there is none
RECURSIVE bestIndex(_, _, _, _)
bestIndex(candidates, required, lo, hi) ==
    IF lo > hi THEN 0
    ELSE IF lo = hi THEN (IF candidates[lo].contacts >= required THEN lo ELSE 0)
    ELSE better(candidates,
                bestIndex(candidates, required, lo, (lo + hi) \div 2),
                bestIndex(candidates, required, ((lo + hi) \div 2) + 1, hi))

\* requiredContacts of placeMesh
requiredContacts(candidates, numBodies) ==
    IF numBodies >= 2 /\ \E i \in 1..Len(candidates) : candidates[i].contacts >= 2
    THEN 2 ELSE 1

\* the selection of placeMesh: requiredContacts, then least score, then the
\* fallback to the least score of all
bestOrFallback(candidates, best) ==
    IF best # 0 THEN candidates[best]
    ELSE candidates[bestIndex(candidates, 0, 1, Len(candidates))]
chooseCandidate(candidates, numBodies) ==
    bestOrFallback(candidates,
                   bestIndex(candidates, requiredContacts(candidates, numBodies),
                             1, Len(candidates)))

NoPlace == [ok |-> FALSE, x |-> 0, y |-> 0]
PlaceMirrored(c) == [ok |-> TRUE, x |-> -c.x, y |-> c.y]
Place(c) == [ok |-> TRUE, x |-> c.x, y |-> c.y]

\* the test of the third-circle special case on a tangent point c: inside
\* the bounds and touching both circles
thirdGood(c, a, b, r3, bx, by) ==
    /\ ~(c.x - r3 < -bx + marginLocal \/ c.x + r3 > bx - marginLocal
         \/ c.y - r3 < -by + marginLocal \/ c.y + r3 > by - marginLocal)
    /\ ~(Abs(Hypot(c.x - a.x, c.y - a.y) - (a.contactRadius + r3))
             > Mul(a.contactRadius + r3, 400)
         \/ Abs(Hypot(c.x - b.x, c.y - b.y) - (b.contactRadius + r3))
             > Mul(b.contactRadius + r3, 400))

\* the first good point of pts[i..], or none
RECURSIVE firstGood(_, _, _, _, _, _, _)
firstGood(pts, i, a, b, r3, bx, by) ==
    IF i > Len(pts) THEN NoPlace
    ELSE IF thirdGood(pts[i], a, b, r3, bx, by) THEN Place(pts[i])
    ELSE firstGood(pts, i + 1, a, b, r3, bx, by)

\* the third-circle special case: the first tangent point that is inside the
\* bounds and touches both circles, or none
thirdCircle(bs, m, bx, by) ==
    firstGood(tangentPoints(bs[1], bs[2], m.contactRadius), 1,
              bs[1], bs[2], m.contactRadius, bx, by)

\* bestCandidate of placeMesh, or failure when there are no candidates
placeAmong(candidates, numBodies) ==
    IF candidates = <<>> THEN NoPlace
    ELSE Place(chooseCandidate(candidates, numBodies))

\* the general case of placeMesh
generalPlace(bs, m, bx, by) ==
    placeAmong(generateCandidates(bs, [i \in 1..Len(bs) |-> bodyPolygon(bs[i])] \o <<>>,
                                  m, bx, by),
               Len(bs))

\* the result of the special case if it has one, else the general case
placeAfter(t, bs, m, bx, by) ==
    IF t.ok THEN t ELSE generalPlace(bs, m, bx, by)

\* placeMesh: where the mesh goes, or failure
placeMeshAside(bs, m, bx, by) ==
    IF Len(bs) = 0
    THEN IF 0 - m.boundingRadius < -bx \/ 0 + m.boundingRadius > bx
            \/ 0 - m.boundingRadius < -by \/ 0 + m.boundingRadius > by
         THEN NoPlace
         ELSE [ok |-> TRUE, x |-> bx - m.boundingRadius, y |-> 0]
    ELSE placeAfter(IF m.shapeType = "circle" /\ Len(bs) = 2
                       /\ bs[1].shapeType = "circle" /\ bs[2].shapeType = "circle"
                    THEN thirdCircle(bs, m, bx, by) ELSE NoPlace,
                    bs, m, bx, by)
placeMesh(bs, m, bx, by) ==
    IF Len(bs) = 0
    THEN IF 0 - m.boundingRadius < -bx \/ 0 + m.boundingRadius > bx
            \/ 0 - m.boundingRadius < -by \/ 0 + m.boundingRadius > by
         THEN NoPlace
         ELSE [ok |-> TRUE, x |-> 0, y |-> 0]
    ELSE placeAfter(IF m.shapeType = "circle" /\ Len(bs) = 2
                       /\ bs[1].shapeType = "circle" /\ bs[2].shapeType = "circle"
                    THEN thirdCircle(bs, m, bx, by) ELSE NoPlace,
                    bs, m, bx, by)

\* the body that placeMesh hands to addBodyEntry with registerBody's id,
\* mass being boundingRadius squared
bodyOf(id, m, p, mass) ==
    [id |-> id, shape |-> m.shape, shapeType |-> m.shapeType,
     boundingRadius |-> m.boundingRadius, contactRadius |-> m.contactRadius,
     mass |-> mass, invMass |-> Div(Scale, mass),
     x |-> p.x, y |-> p.y, rot |-> m.rot,
     vx |-> 0, vy |-> 0, angularVelocity |-> 0,
     colorIndex |-> m.colorIndex, isDragged |-> FALSE, speedScale |-> 0]
newBody(id, m, p) == bodyOf(id, m, p, Mul(m.boundingRadius, m.boundingRadius))

-----------------------------------------------------------------------------
(* createShapes (main.js 336-1027) as a computation on the build state      *)
(* b = [bodies, nextBodyId, h, avail]: the registry, the id counter, the    *)
(* generator state and availablePresetIndices.                              *)

RemoveAt(seq, i) == SubSeq(seq, 1, i - 1) \o SubSeq(seq, i + 1, Len(seq))

\* the splice of takePresetIndex at index i - 1, after the draw d
presetAtKept(b, d, i) == [b |-> [b EXCEPT !.h = d.h], idx |-> b.avail[i]]
presetAt(b, d, i) ==
    [b |-> [b EXCEPT !.h = d.h, !.avail = RemoveAt(b.avail, i)], idx |-> b.avail[i]]
presetDrawn(b, d) == presetAt(b, d, RngFloor(d.u, Len(b.avail)) + 1)

\* takePresetIndex: [b |-> the build state after the draw, idx |-> the preset]
takePresetIndex(b) ==
    IF Len(b.avail) = 0 THEN [b |-> b, idx |-> 0]
    ELSE presetDrawn(b, mulberry32(b.h))

\* the mesh of a shape with its preset and rotation
meshFrom(k, shape, presetIndex, rot) ==
    [shape |-> k, shapeType |-> shape.shapeType,
     boundingRadius |-> shape.boundingRadius,
     contactRadius |-> shape.contactRadius,
     rot |-> rot, rotPoly |-> polygon(rotateVerts(shape.localVerts, rot)),
     colorIndex |-> presetIndex]
meshOf(k, presetIndex, rot) == meshFrom(k, Shapes[k], presetIndex, rot)

\* addBodyEntry after a successful placeMesh
addBodyEntry(b, m, p) ==
    [b EXCEPT !.bodies = Append(b.bodies, newBody(b.nextBodyId, m, p)),
              !.nextBodyId = b.nextBodyId + 1]

\* the outcome of a shape call: whether it placed the mesh, and the build
\* state it leaves
Built(ok, b) == [ok |-> ok, b |-> b]

\* one attempt of addCircle, addRect or addTriangle with the generator in
\* state h after the attempt and the mesh m: placeMesh, then addBodyEntry
attemptPlacedOrLost(b, m, p) ==
    IF p.ok THEN Built(TRUE, addBodyEntry(b, m, p)) ELSE Built(FALSE, [b EXCEPT !.bodies = <<>>])
attemptPlaced(b, m, p) == IF p.ok THEN Built(TRUE, addBodyEntry(b, m, p)) ELSE Built(FALSE, b)
attemptWith(b, m, bx, by) == attemptPlaced(b, m, placeMesh(b.bodies, m, bx, by))

\* attempt number a (from 0) of a shape call that started in build state b:
\* addCircle places at rotation 0; addRect and addTriangle draw the
\* rotation, the generator having made a draws in the attempts before
attemptDrawn(b, k, presetIndex, d, bx, by) ==
    attemptWith([b EXCEPT !.h = d.h], meshOf(k, presetIndex, Mul(RngFix(d.u), TwoPi)), bx, by)
attempt(b, k, presetIndex, a, bx, by) ==
    IF Shapes[k].shapeType = "circle" THEN attemptWith(b, meshOf(k, presetIndex, 0), bx, by)
    ELSE attemptDrawn(b, k, presetIndex, mulberry32(advance(b.h, a)), bx, by)

\* the later outcome unless the earlier one placed the mesh
orElseLater(l, r) == IF r.ok THEN r ELSE l
orElse(l, r) == IF l.ok THEN l ELSE r

\* the attempts lo..hi of a shape call in order, up to the first that places
\* the mesh; the loop is split in halves
RECURSIVE attempts(_, _, _, _, _, _, _)
attempts(b, k, presetIndex, lo, hi, bx, by) ==
    IF lo = hi THEN attempt(b, k, presetIndex, lo, bx, by)
    ELSE orElse(attempts(b, k, presetIndex, lo, (lo + hi) \div 2, bx, by),
                attempts(b, k, presetIndex, ((lo + hi) \div 2) + 1, hi, bx, by))

\* the rotation attempts of addRect and addTriangle: a fresh rotation per
\* attempt, stopping at the first success; addCircle makes one attempt
rotationAttempts(b, k, presetIndex, maxAttempts, bx, by) ==
    attempts(b, k, presetIndex, 0, maxAttempts - 1, bx, by).b

\* addCircle, addRect (addSquare) and addTriangle for shape k, after
\* takePresetIndex
addPreset(t, k, bx, by) ==
    rotationAttempts(t.b, k, t.idx, Shapes[k].maxAttempts, bx, by)
addShape(b, k, bx, by) == addPreset(takePresetIndex(b), k, bx, by)

\* speedScale of the closing loop of createShapes
speedScaleOf(body) == Div(18000, 6000 + Max(3000, body.boundingRadius))

\* randomVelocity: the body with its velocity at the drawn angle and speed
velocityAt(st, angle, speed, h) ==
    [body |-> [st.body EXCEPT !.vx = Mul(Cos(angle), speed), !.vy = Mul(Sin(angle), speed)],
     h |-> h]
velocityDrawn(st, speedScale, d1, d2) ==
    velocityAt(st, Mul(RngFix(d1.u), TwoPi),
               Mul((4000 + Mul(RngFix(d2.u), 6000)) * 2, speedScale), d2.h)
velocityNext(st, speedScale, d1) == velocityDrawn(st, speedScale, d1, mulberry32(d1.h))
randomVelocity(st, speedScale) == velocityNext(st, speedScale, mulberry32(st.h))

\* the spin of the closing loop after its draw d
spun(st, speedScale, d) ==
    [body |-> [st.body EXCEPT
                  !.speedScale = speedScale,
                  !.angularVelocity = Mul(Mul(RngFix(d.u) - 5000, 8000),
                                          Mul(speedScale, 11000))],
     h |-> d.h]

\* one turn of the closing loop on st = [body, h]: a velocity for a body
\* that has none, then the spin
spin(s1, speedScale) == spun(s1, speedScale, mulberry32(s1.h))
motionOf(st, speedScale) ==
    spin(IF st.body.vx = 0 /\ st.body.vy = 0 THEN randomVelocity(st, speedScale) ELSE st,
         speedScale)

\* the number of draws the closing loop makes for the bodies before body i:
\* two for the velocity of a body that has none, one for the spin
motionDraws(bs, i) ==
    i - 1 + 2 * Cardinality({j \in 1..(i - 1) : bs[j].vx = 0 /\ bs[j].vy = 0})

\* the closing loop of createShapes: speedScale, randomVelocity and the spin
\* of every body, in registry order
startMotion(b) ==
    [b EXCEPT
        !.bodies = [i \in 1..Len(b.bodies) |->
                       motionOf([body |-> b.bodies[i],
                                 h |-> advance(b.h, motionDraws(b.bodies, i))],
                                speedScaleOf(b.bodies[i])).body] \o <<>>,
        !.h = advance(b.h, motionDraws(b.bodies, Len(b.bodies) + 1))]

PresetIndices == [i \in 1..COLOR_PRESETS |-> i - 1] \o <<>>

\* the shape calls lo..hi of createShapes in order: trace[k + 1] is the build
\* state after the first k shape calls; the sequence of calls is split in
\* halves
RECURSIVE buildTrace(_, _, _, _, _)
buildTrace(trace, lo, hi, bx, by) ==
    IF lo = hi THEN Append(trace, addShape(trace[Len(trace)], lo, bx, by))
    ELSE buildTrace(buildTrace(trace, lo, (lo + hi) \div 2, bx, by),
                    ((lo + hi) \div 2) + 1, hi, bx, by)

\* the shape calls of createShapes from an empty registry
addShapes(h, bx, by) ==
    buildTrace(<< [bodies |-> <<>>, nextBodyId |-> 1, h |-> h, avail |-> PresetIndices] >>,
               1, NumShapes, bx, by)

\* createShapes: the steps of the shape calls and the registry after the
\* closing loop
shapesCreated(t) == [steps |-> t, final |-> startMotion(t[Len(t)])]
createShapes(h, bx, by) == shapesCreated(addShapes(h, bx, by))

-----------------------------------------------------------------------------
(* The inputs of a run, and the builds they can ask for *)

\* the seed strings getSeed can return ("a", "b")
Seeds == << <<97>>, <<98>> >>

\* Math.tan(vFov / 2) * camera.position.z of updateWorldBounds: tan(17.5 deg) * 7
halfHeight == 22071
\* halfHeight * camera.aspect for the window shapes of a run: the narrow
\* windows whose builds are tabulated below, and the others, one where a
\* single square fits and two wide ones
TableWidths == << 2000, 2300, 3000 >>
OtherWidths == << 2200, 7500, 10000 >>
HalfWidths == TableWidths \o OtherWidths

\* the module-level initial values of worldBoundsX and worldBoundsY
defaultBoundsX == 40000
defaultBoundsY == 22000

\* how many finished builds, inputs (pointer events, clicks, resizes) and
\* frames a run may hold
MaxBuilds == 2
MaxInputs == 2
MaxFrames == 2

\* how many inputs and frames a run of the simulation alone may hold
MaxSimInputs == 3
MaxSimFrames == 1

\* createShapes for every seed and narrow window of a run.  createShapes is
\* a function of the build state it starts from and the world bounds, so a
\* run that is in a tabulated build state looks the next one up here.
Compositions ==
    [s \in 1..Len(Seeds) |->
        [w \in 1..Len(TableWidths) |->
            createShapes(createRng(Seeds[s]), TableWidths[w], halfHeight)] \o <<>>] \o <<>>

-----------------------------------------------------------------------------
(* The state after the module has loaded (main.js 5-9, 27-28, 1398-1399) *)

Stale == -1
NoPos == <<>>
NoTime == -1
NoBuild == [seed |-> 0, k |-> 0, h |-> << 0, 0 >>, avail |-> <<>>, trace |-> <<>>]

vars == << bodies, physicsEnabled, nextBodyId, colorTransferEnabled, draggedBody,
           dragOffset, lastDragPos, pointerPos, view, worldBoundsX, worldBoundsY,
           lastTime, accumulator, pc, build, compositions, issued, last, budget >>

\* the history record of an operation: its name, the registry and the flag
\* before it, the approaching collisions it resolved (pairs of registry
\* indices), the id it handed out and the ids handed out before it, the seed
\* of the build it finished, the generator state a shape call started with,
\* the overlapping pairs a step pushed apart that were not approaching, the
\* accumulator a frame or a step started with, and how many steps the frame
\* has run
OpOf(name, bs, enabled) ==
    [op |-> name, bodies |-> bs, physicsEnabled |-> enabled,
     hits |-> <<>>, newId |-> 0, issued |-> {}, seed |-> 0, h |-> << 0, 0 >>,
     grazes |-> <<>>, accumulator |-> 0, steps |-> 0]
Op(name) == OpOf(name, bodies, physicsEnabled)

NoCompositions == [s \in 1..Len(Seeds) |-> [w \in 1..Len(HalfWidths) |-> <<>>]]

Init ==
    /\ bodies = <<>>
    /\ physicsEnabled = FALSE
    /\ nextBodyId = 1
    /\ colorTransferEnabled = FALSE
    /\ draggedBody = 0
    /\ dragOffset = NoPos
    /\ lastDragPos = NoPos
    /\ pointerPos = Vec(0, 0)
    /\ view \in 1..Len(TableWidths)
    /\ worldBoundsX = defaultBoundsX
    /\ worldBoundsY = defaultBoundsY
    /\ lastTime = NoTime
    /\ accumulator = 0
    /\ pc = "load"
    /\ build = NoBuild
    /\ compositions = NoCompositions
    /\ issued = {}
    /\ last = OpOf("load", <<>>, FALSE)
    /\ budget = [builds |-> MaxBuilds, inputs |-> MaxInputs, frames |-> MaxFrames]

-----------------------------------------------------------------------------
(* Builds: createScene (main.js 1097-1204, 1901-1905) and                   *)
(* regenerateComposition (268-291) run createShapes (336-1027) to its end   *)
(* before any other handler can run; pc = "build" is the inside of that     *)
(* call, one step per shape call.                                           *)

\* setPhysicsEnabled
setPhysicsEnabledSkipped(enabled) == UNCHANGED physicsEnabled
setPhysicsEnabled(enabled) == physicsEnabled' = enabled

\* updateWorldBounds
updateWorldBounds(w) ==
    /\ worldBoundsX' = HalfWidths[w]
    /\ worldBoundsY' = halfHeight

\* bodies.length = 0 of regenerateComposition
clearedRegistryKept(bs) == bs
clearedRegistry(bs) == <<>>

\* nextBodyId = 1 of regenerateComposition
resetNextBodyId(id) == 1

\* what a registry is remembered by: per body its position, rotation, colour
\* index, linear velocity and angular velocity
composed(bs) ==
    [i \in 1..Len(bs) |->
        << bs[i].x, bs[i].y, bs[i].rot, bs[i].colorIndex, bs[i].vx, bs[i].vy,
           bs[i].angularVelocity >>] \o <<>>

\* the locals of a call of createShapes for seed s on the registry bs: the
\* generator createRng made and availablePresetIndices; trace is history,
\* the registry at the start and after each shape call
buildOf(s, bs) ==
    [seed |-> s, k |-> 1, h |-> createRng(Seeds[s]), avail |-> PresetIndices,
     trace |-> << composed(bs) >>]

\* the build state of createShapes
buildState == [bodies |-> bodies, nextBodyId |-> nextBodyId, h |-> build.h, avail |-> build.avail]

\* main: getSeed, then createScene up to its call of createShapes
CreateScene(s) ==
    /\ pc = "load"
    /\ budget.builds > 0
    /\ updateWorldBounds(view)
    /\ pc' = "build"
    /\ build' = buildOf(s, bodies)
    /\ last' = Op("createScene")
    /\ UNCHANGED << bodies, physicsEnabled, nextBodyId, colorTransferEnabled, draggedBody,
                    dragOffset, lastDragPos, pointerPos, view, lastTime, accumulator,
                    compositions, issued, budget >>

\* the refresh button: getSeed, then regenerateComposition up to its call of
\* createShapes.  A body that is being dragged leaves the registry with the
\* others; draggedBody keeps pointing at it.
RegenerateComposition(s) ==
    /\ pc = "idle"
    /\ budget.builds > 0
    /\ bodies' = clearedRegistry(bodies)
    /\ setPhysicsEnabled(FALSE)
    /\ nextBodyId' = resetNextBodyId(nextBodyId)
    /\ draggedBody' = IF draggedBody = 0 THEN 0 ELSE Stale
    /\ pc' = "build"
    /\ build' = buildOf(s, bodies')
    /\ last' = Op("regenerateComposition")
    /\ UNCHANGED << colorTransferEnabled, dragOffset, lastDragPos, pointerPos, view,
                    worldBoundsX, worldBoundsY, lastTime, accumulator, compositions,
                    issued, budget >>

\* is b the build state before shape call k of the tabulated build for
\* seed s in the window w, the world bounds being the window's
tabulated(b, s, w, k, bx, by) ==
    /\ w <= Len(TableWidths)
    /\ bx = TableWidths[w]
    /\ by = halfHeight
    /\ b = Compositions[s][w].steps[k]

\* shape call k of createShapes on the build state b: the next step of the
\* table where b is tabulated, and the call itself elsewhere
shapeCall(b, s, w, k, bx, by) ==
    IF tabulated(b, s, w, k, bx, by) THEN Compositions[s][w].steps[k + 1]
    ELSE addShape(b, k, bx, by)
\* the closing loop of createShapes on the build state b, likewise
closingLoop(b, s, w, bx, by) ==
    IF tabulated(b, s, w, NumShapes + 1, bx, by) THEN Compositions[s][w].final
    ELSE startMotion(b)

\* the ids that the registry bs holds beyond the first n bodies
newIds(bs, n) == {bs[i].id : i \in (n + 1)..Len(bs)}

\* one shape call of createShapes: addCircle, addSquare, addRect or
\* addTriangle; placeMesh either fails or ends in addBodyEntry
AddShape ==
    /\ pc = "build"
    /\ build.k <= NumShapes
    /\ \E b \in {shapeCall(buildState, build.seed, view, build.k,
                           worldBoundsX, worldBoundsY)} :
          /\ bodies' = b.bodies
          /\ nextBodyId' = b.nextBodyId
          /\ build' = [build EXCEPT !.k = @ + 1, !.h = b.h, !.avail = b.avail,
                                    !.trace = Append(@, composed(b.bodies))]
          /\ issued' = issued \cup newIds(b.bodies, Len(bodies))
          /\ last' = [Op("addShape") EXCEPT
                         !.newId = IF Len(b.bodies) > Len(bodies) THEN nextBodyId ELSE 0,
                         !.issued = issued,
                         !.h = build.h]
    /\ UNCHANGED << physicsEnabled, colorTransferEnabled, draggedBody, dragOffset,
                    lastDragPos, pointerPos, view, worldBoundsX, worldBoundsY, lastTime,
                    accumulator, pc, compositions, budget >>

\* the end of createShapes: setPhysicsEnabled(true), then speedScale, velocity
\* and spin for every body of the registry
FinishBuild ==
    /\ pc = "build"
    /\ build.k > NumShapes
    /\ setPhysicsEnabled(TRUE)
    /\ bodies' = closingLoop(buildState, build.seed, view, worldBoundsX,
                              worldBoundsY).bodies
    /\ compositions' =
          IF compositions[build.seed][view] = <<>>
          THEN [compositions EXCEPT ![build.seed][view] =
                                        Append(build.trace, composed(bodies'))]
          ELSE compositions
    /\ pc' = "idle"
    /\ build' = NoBuild
    /\ last' = [Op("finishBuild") EXCEPT !.seed = build.seed]
    /\ budget' = [budget EXCEPT !.builds = @ - 1]
    /\ UNCHANGED << nextBodyId, colorTransferEnabled, draggedBody, dragOffset, lastDragPos,
                    pointerPos, view, worldBoundsX, worldBoundsY, lastTime, accumulator,
                    issued >>

-----------------------------------------------------------------------------
(* updatePhysics (main.js 1403-1569) for one fixed step *)

\* fixedStep and the clamp of animate, in units of 0.1 ms
fixedStep == 100
maxFrameDt == 500
\* BASE_LINEAR_DAMPING * exp(-FLUID_LINEAR_VISCOSITY * fixedStep) = 0.998 * exp(-0.012)
linearDrag == 9861
\* BASE_ANGULAR_DAMPING * exp(-FLUID_ANGULAR_VISCOSITY * fixedStep) = 0.99 * exp(-0.008)
angDrag == 9821
draggedDamping == 9000
baseSpinFactor == 1800
maxAngVel == 40000
linearEps == 200
angularEps == 4000

\* the reflection of one coordinate at the walls -bound and bound
wallBounceInPlace(pos, vel, r, bound) ==
    IF pos - r < -bound \/ pos + r > bound THEN << pos, -vel >> ELSE << pos, vel >>
wallBounce(pos, vel, r, bound) ==
    IF pos - r < -bound THEN << -bound + r, -vel >>
    ELSE IF pos + r > bound THEN << bound - r, -vel >>
    ELSE << pos, vel >>

\* a dragged body: velocity.multiplyScalar(0.9), then continue
dragDampedFaster(body) == [body EXCEPT !.vx = Mul(@, 2 * Scale), !.vy = Mul(@, 2 * Scale)]
dragDamped(body) == [body EXCEPT !.vx = Mul(@, draggedDamping), !.vy = Mul(@, draggedDamping)]

\* the rotation of a body that spins, and the decay of its spin
rotated(body) ==
    IF body.angularVelocity # 0
    THEN [body EXCEPT !.rot = @ + Mul(body.angularVelocity, fixedStep),
                      !.angularVelocity = Mul(@, angDrag)]
    ELSE body

\* the linear drag
undamped(body) == body
damped(body) == [body EXCEPT !.vx = Mul(@, linearDrag), !.vy = Mul(@, linearDrag)]

\* the position after the step, bounced off the walls
bounced(body, wx, wy) == [body EXCEPT !.x = wx[1], !.vx = wx[2], !.y = wy[1], !.vy = wy[2]]
integrated(body, bx, by) ==
    bounced(body,
            wallBounce(body.x + Mul(body.vx, fixedStep), body.vx, body.boundingRadius, bx),
            wallBounce(body.y + Mul(body.vy, fixedStep), body.vy, body.boundingRadius, by))

\* the "Move bodies" loop for one body
moveBody(body, bx, by) ==
    IF body.isDragged THEN dragDamped(body) ELSE integrated(damped(rotated(body)), bx, by)

clampAngVel(av) == IF av > maxAngVel THEN maxAngVel ELSE IF av < -maxAngVel THEN -maxAngVel ELSE av

\* transferColorOnCollision: the two bodies exchange their presets
transferColorCopied(a, b) == << a, [b EXCEPT !.colorIndex = a.colorIndex] >>
transferColorOnCollision(a, b) ==
    << [a EXCEPT !.colorIndex = b.colorIndex], [b EXCEPT !.colorIndex = a.colorIndex] >>

\* body.speedScale || 1
speedScaleOr1(body) == IF body.speedScale = 0 THEN Scale ELSE body.speedScale

\* a body after the impulse jn * ratio along n (sign -1 for a, 1 for b) and
\* the spin from the tangential velocity
kicked(body, sign, n, jn, ratio, velTangent) ==
    [body EXCEPT !.vx = @ + sign * Mul(Mul(jn, n.x), ratio),
                 !.vy = @ + sign * Mul(Mul(jn, n.y), ratio),
                 !.angularVelocity =
                     IF body.shapeType \in {"rect", "tri", "circle"}
                     THEN clampAngVel(@ + sign * Mul(velTangent,
                                                     Mul(baseSpinFactor, speedScaleOr1(body))))
                     ELSE @]

\* the velocity part of the collision response of bodies a and b along the
\* normal n (from a to b), entered when velAlongNormal < 0.  The change of
\* velocity jImpulse * normal * invMass is computed as
\* (-(1 + restitution) * velAlongNormal) * normal * (invMass / invMassSum),
\* the same number with the quotient taken last.
impulse(a, b, n, van, invMassA, invMassB, velTangent) ==
    << kicked(a, -1, n, -2 * van, Div(invMassA, invMassA + invMassB), velTangent),
       kicked(b, 1, n, -2 * van, Div(invMassB, invMassA + invMassB), velTangent) >>
coloured(ab, colorTransfer) ==
    IF colorTransfer THEN transferColorOnCollision(ab[1], ab[2]) ELSE ab
bounce(a, b, n, van, invMassA, invMassB, colorTransfer) ==
    coloured(impulse(a, b, n, van, invMassA, invMassB,
                     Mul(b.vx - a.vx, -n.y) + Mul(b.vy - a.vy, n.x)),
             colorTransfer)

\* the positional correction of one body by dist along n
pushed(body, n, dist) == [body EXCEPT !.x = @ + Mul(n.x, dist), !.y = @ + Mul(n.y, dist)]

\* the pair (a, b) after the response, and whether it was approaching
respondedSwapping(a, b, n, depth, invMassA, invMassB, van, colorTransfer) ==
    coloured(IF van < 0
             THEN impulse(pushed(a, n, -Mul(depth, Div(invMassA, invMassA + invMassB))),
                          pushed(b, n, Mul(depth, Div(invMassB, invMassA + invMassB))),
                          n, van, invMassA, invMassB,
                          Mul(b.vx - a.vx, -n.y) + Mul(b.vy - a.vy, n.x))
             ELSE << pushed(a, n, -Mul(depth, Div(invMassA, invMassA + invMassB))),
                     pushed(b, n, Mul(depth, Div(invMassB, invMassA + invMassB))) >>,
             colorTransfer)
responded(a, b, n, depth, invMassA, invMassB, van, colorTransfer) ==
    IF van < 0
    THEN bounce(pushed(a, n, -Mul(depth, Div(invMassA, invMassA + invMassB))),
                pushed(b, n, Mul(depth, Div(invMassB, invMassA + invMassB))),
                n, van, invMassA, invMassB, colorTransfer)
    ELSE << pushed(a, n, -Mul(depth, Div(invMassA, invMassA + invMassB))),
            pushed(b, n, Mul(depth, Div(invMassB, invMassA + invMassB))) >>

\* the state of the pair loop after the response ab of bodies i and j
paired(st, i, j, ab, van) ==
    [bodies |-> [st.bodies EXCEPT ![i] = ab[1], ![j] = ab[2]],
     hits |-> IF van < 0 THEN Append(st.hits, << i, j >>) ELSE st.hits,
     grazes |-> IF van < 0 THEN st.grazes ELSE Append(st.grazes, << i, j >>)]

\* the collision normal, turned to point from a to b
towards(a, b, normal) ==
    IF (b.x - a.x) * normal.x + (b.y - a.y) * normal.y < 0
    THEN Vec(-normal.x, -normal.y) ELSE normal

\* isDragged ? 0 : invMass
invMassOfDraggedToo(body) == body.invMass
invMassOf(body) == IF body.isDragged THEN 0 ELSE body.invMass

\* the response to the overlap of bodies i and j along n
respond(st, i, j, a, b, n, depth, invMassA, invMassB, van, colorTransfer) ==
    IF invMassA + invMassB = 0 THEN st
    ELSE paired(st, i, j,
                responded(a, b, n, depth, invMassA, invMassB, van, colorTransfer), van)

collide(st, i, j, a, b, n, depth, colorTransfer) ==
    respond(st, i, j, a, b, n, depth, invMassOf(a), invMassOf(b),
            Mul(b.vx - a.vx, n.x) + Mul(b.vy - a.vy, n.y), colorTransfer)

tested(st, i, j, a, b, result, colorTransfer) ==
    IF ~result.hit THEN st
    ELSE collide(st, i, j, a, b, towards(a, b, result.normal), result.depth, colorTransfer)

\* the body of the pair loop for bodies[i] and bodies[j]; st = [bodies, hits, grazes]
resolvePair(st, i, j, colorTransfer) ==
    tested(st, i, j, st.bodies[i], st.bodies[j],
           polygonPolygonSAT(bodyPolygon(st.bodies[i]), bodyPolygon(st.bodies[j])),
           colorTransfer)

\* the pairs (i, j), i < j, of n bodies in the order of the nested loops
pairsOf(n) ==
    SelectSeq([k \in 1..(n * n) |-> << ((k - 1) \div n) + 1, ((k - 1) % n) + 1 >>] \o <<>>,
              LAMBDA p : p[1] < p[2])

\* the pair loop over pairs[lo..hi], the range split in halves; each half
\* starts from the finished state of the one before it
RECURSIVE resolvePairs(_, _, _, _, _)
resolvePairs(st, pairs, lo, hi, colorTransfer) ==
    IF lo > hi \/ Len(st.bodies) < 2 THEN st
    ELSE IF lo = hi THEN resolvePair(st, pairs[lo][1], pairs[lo][2], colorTransfer)
    ELSE resolvePairs(resolvePairs(st, pairs, lo, (lo + hi) \div 2, colorTransfer),
                      pairs, ((lo + hi) \div 2) + 1, hi, colorTransfer)

\* the closing scan: is any body dragged or faster than the thresholds
anyMovingFree(bs) ==
    \E i \in 1..Len(bs) :
        \/ Hypot(bs[i].vx, bs[i].vy) > linearEps
        \/ Abs(bs[i].angularVelocity) > angularEps
anyMoving(bs) ==
    \E i \in 1..Len(bs) :
        \/ bs[i].isDragged
        \/ Hypot(bs[i].vx, bs[i].vy) > linearEps
        \/ Abs(bs[i].angularVelocity) > angularEps

\* updatePhysics while physicsEnabled: [bodies, hits, grazes, physicsEnabled]
\* after the step
scanned(st) ==
    [bodies |-> st.bodies, hits |-> st.hits, grazes |-> st.grazes,
     physicsEnabled |-> anyMoving(st.bodies)]
collided(moved, pairs, colorTransfer) ==
    scanned(resolvePairs([bodies |-> moved, hits |-> <<>>, grazes |-> <<>>], pairs, 1,
                         Len(pairs), colorTransfer))
updatePhysics(bs, bx, by, colorTransfer) ==
    collided([i \in 1..Len(bs) |-> moveBody(bs[i], bx, by)] \o <<>>, pairsOf(Len(bs)),
             colorTransfer)

-----------------------------------------------------------------------------
(* animate (main.js 1571-1592): the frame callback and its fixed steps *)

\* the time between two frames, in units of 0.1 ms
FrameTimes == {170, 600}

\* dt = Math.min(dt, 0.05)
unclampedDt(dt) == dt
clampedDt(dt) == Min(dt, maxFrameDt)

\* animate up to its while loop; the first frame only sets lastTime
AnimateBegin(elapsed) ==
    /\ pc = "idle"
    /\ budget.frames > 0
    /\ lastTime' = 0
    /\ accumulator' = accumulator + (IF lastTime = NoTime THEN 0 ELSE clampedDt(elapsed))
    /\ pc' = "frame"
    /\ budget' = [budget EXCEPT !.frames = @ - 1]
    /\ last' = [Op("animate") EXCEPT !.accumulator = accumulator]
    /\ UNCHANGED << bodies, physicsEnabled, nextBodyId, colorTransferEnabled, draggedBody,
                    dragOffset, lastDragPos, pointerPos, view, worldBoundsX, worldBoundsY,
                    build, compositions, issued >>

\* if (!physicsEnabled) return, the first statement of updatePhysics
returnsNever(enabled) == FALSE
returnsAtOnce(enabled) == ~enabled

\* one turn of the while loop: updatePhysics(fixedStep), which returns at once
\* when physics is paused
Step ==
    /\ pc = "frame"
    /\ accumulator >= fixedStep
    /\ accumulator' = accumulator - fixedStep
    /\ IF ~returnsAtOnce(physicsEnabled)
       THEN \E u \in {updatePhysics(bodies, worldBoundsX, worldBoundsY,
                                    colorTransferEnabled)} :
               /\ bodies' = u.bodies
               /\ physicsEnabled' = u.physicsEnabled
               /\ last' = [Op("updatePhysics") EXCEPT !.hits = u.hits,
                                                     !.grazes = u.grazes,
                                                     !.accumulator = accumulator,
                                                     !.steps = last.steps + 1]
       ELSE /\ UNCHANGED << bodies, physicsEnabled >>
            /\ last' = [Op("updatePhysics") EXCEPT !.accumulator = accumulator,
                                                     !.steps = last.steps + 1]
    /\ UNCHANGED << nextBodyId, colorTransferEnabled, draggedBody, dragOffset, lastDragPos,
                    pointerPos, view, worldBoundsX, worldBoundsY, lastTime, pc, build,
                    compositions, issued, budget >>

\* the end of animate: render, requestAnimationFrame
AnimateEnd ==
    /\ pc = "frame"
    /\ accumulator < fixedStep
    /\ pc' = "idle"
    /\ last' = Op("render")
    /\ UNCHANGED << bodies, physicsEnabled, nextBodyId, colorTransferEnabled, draggedBody,
                    dragOffset, lastDragPos, pointerPos, view, worldBoundsX, worldBoundsY,
                    lastTime, accumulator, build, compositions, issued, budget >>

-----------------------------------------------------------------------------
(* The buttons and the window (main.js 248-266, 1388-1395, 1822-1829, 1874-1879) *)

\* what Math.random returns for one body of applyPlayImpulse: the angle, the
\* base speed and the spin draw, each in [0, 1)
PlayDraws == << [angle |-> 1250, speed |-> 0, spin |-> 9999],
                [angle |-> 6250, speed |-> 9999, spin |-> 5000] >>

playSpeedMin == 8000
playSpeedRange == 12000
spinBase == 6000

\* the velocity and spin of applyPlayImpulse for one body
impelled(body, angle, speedVal, spinDraw) ==
    [body EXCEPT !.vx = Mul(Cos(angle), speedVal),
                 !.vy = Mul(Sin(angle), speedVal),
                 !.angularVelocity =
                     IF body.shapeType \in {"rect", "tri", "circle"}
                     THEN Mul(Mul(spinDraw - 5000, spinBase), speedScaleOr1(body))
                     ELSE @]

\* applyPlayImpulse for one body with its three draws
playImpulseDraggedToo(body, d) ==
    impelled(body, Mul(d.angle, TwoPi),
             Mul(playSpeedMin + Mul(d.speed, playSpeedRange), speedScaleOr1(body)), d.spin)
playImpulse(body, d) ==
    IF body.isDragged THEN body
    ELSE impelled(body, Mul(d.angle, TwoPi),
                  Mul(playSpeedMin + Mul(d.speed, playSpeedRange), speedScaleOr1(body)),
                  d.spin)

\* applyPlayImpulse, body i drawing PlayDraws[i + o] (cyclically)
applyPlayImpulse(bs, o) ==
    [i \in 1..Len(bs) |-> playImpulse(bs[i], PlayDraws[((i + o) % Len(PlayDraws)) + 1])] \o <<>>

spendInput == budget' = [budget EXCEPT !.inputs = @ - 1]

\* the play button while paused: resume, and a fresh impulse for every body
\* that is not dragged
Play ==
    /\ pc = "idle"
    /\ budget.inputs > 0
    /\ ~physicsEnabled
    /\ setPhysicsEnabled(TRUE)
    /\ \E o \in 1..Len(PlayDraws) : bodies' = applyPlayImpulse(bodies, o)
    /\ last' = Op("play")
    /\ spendInput
    /\ UNCHANGED << nextBodyId, colorTransferEnabled, draggedBody, dragOffset, lastDragPos,
                    pointerPos, view, worldBoundsX, worldBoundsY, lastTime, accumulator, pc,
                    build, compositions, issued >>

\* the play button while running: pause
Pause ==
    /\ pc = "idle"
    /\ budget.inputs > 0
    /\ physicsEnabled
    /\ setPhysicsEnabled(FALSE)
    /\ last' = Op("pause")
    /\ spendInput
    /\ UNCHANGED << bodies, nextBodyId, colorTransferEnabled, draggedBody, dragOffset,
                    lastDragPos, pointerPos, view, worldBoundsX, worldBoundsY, lastTime,
                    accumulator, pc, build, compositions, issued >>

\* the colour button
ToggleColorTransfer ==
    /\ pc = "idle"
    /\ budget.inputs > 0
    /\ colorTransferEnabled' = ~colorTransferEnabled
    /\ last' = Op("colorBtn")
    /\ spendInput
    /\ UNCHANGED << bodies, physicsEnabled, nextBodyId, draggedBody, dragOffset, lastDragPos,
                    pointerPos, view, worldBoundsX, worldBoundsY, lastTime, accumulator, pc,
                    build, compositions, issued >>

\* onResize to another window shape
OnResize(w) ==
    /\ pc = "idle"
    /\ budget.inputs > 0
    /\ w # view
    /\ view' = w
    /\ updateWorldBounds(w)
    /\ last' = Op("onResize")
    /\ spendInput
    /\ UNCHANGED << bodies, physicsEnabled, nextBodyId, colorTransferEnabled, draggedBody,
                    dragOffset, lastDragPos, pointerPos, lastTime, accumulator, pc, build,
                    compositions, issued >>

-----------------------------------------------------------------------------
(* Dragging (main.js 1146-1156, 1303-1380) *)

\* where inside a body the pointer goes down, relative to the body's centre
GrabOffsets == { Vec(0, 0), Vec(200, 0) }
\* how far the pointer travels between two pointermove events
PointerMoves == { Vec(0, -95), Vec(20000, 0) }

dragScale == 2
maxDragSpeed == 35000

\* clampBodyToWorld
clampBodyToWorld(body, bx, by) ==
    [body EXCEPT !.x = Max(-bx + body.boundingRadius, Min(bx - body.boundingRadius, body.x)),
                 !.y = Max(-by + body.boundingRadius, Min(by - body.boundingRadius, body.y))]

\* the body that onPointerDown leaves behind: dragged and at rest
grabbed(body) == [body EXCEPT !.isDragged = TRUE, !.vx = 0, !.vy = 0, !.angularVelocity = 0]

\* onPointerDown with the pointer on bodies[i]
OnPointerDown(i, off) ==
    /\ pc = "idle"
    /\ budget.inputs > 0
    /\ i \in 1..Len(bodies)
    /\ draggedBody' = i
    /\ bodies' = [bodies EXCEPT ![i] = grabbed(bodies[i])]
    /\ pointerPos' = Vec(bodies[i].x + off.x, bodies[i].y + off.y)
    /\ lastDragPos' = pointerPos'
    /\ dragOffset' = off
    /\ last' = Op("onPointerDown")
    /\ spendInput
    /\ UNCHANGED << physicsEnabled, nextBodyId, colorTransferEnabled, view, worldBoundsX,
                    worldBoundsY, lastTime, accumulator, pc, build, compositions, issued >>

\* the velocity onPointerMove estimates from the drag
capped(vx, vy, len) ==
    IF len > maxDragSpeed /\ len > 0
    THEN Vec(Mul(vx, Div(maxDragSpeed, len)), Mul(vy, Div(maxDragSpeed, len)))
    ELSE Vec(vx, vy)
dragVelocity(newPos, lastPos) ==
    capped((newPos.x - lastPos.x) * dragScale, (newPos.y - lastPos.y) * dragScale,
           Hypot((newPos.x - lastPos.x) * dragScale, (newPos.y - lastPos.y) * dragScale))

\* the dragged body after onPointerMove
movedTo(body, newPos, v, bx, by) ==
    clampBodyToWorld([body EXCEPT !.vx = v.x, !.vy = v.y, !.x = newPos.x, !.y = newPos.y],
                     bx, by)
draggedTo(body, newPos, lastPos, bx, by) ==
    movedTo(body, newPos,
            IF lastPos # NoPos THEN dragVelocity(newPos, lastPos) ELSE Vec(body.vx, body.vy),
            bx, by)

\* onPointerMove while a drag is on
OnPointerMove(d) ==
    /\ pc = "idle"
    /\ budget.inputs > 0
    /\ draggedBody # 0
    /\ pointerPos' = Vec(pointerPos.x + d.x, pointerPos.y + d.y)
    /\ lastDragPos' = Vec(pointerPos'.x - dragOffset.x, pointerPos'.y - dragOffset.y)
    /\ bodies' = IF draggedBody = Stale THEN bodies
                 ELSE [bodies EXCEPT ![draggedBody] =
                          draggedTo(bodies[draggedBody], lastDragPos', lastDragPos,
                                    worldBoundsX, worldBoundsY)]
    /\ last' = Op("onPointerMove")
    /\ spendInput
    /\ UNCHANGED << physicsEnabled, nextBodyId, colorTransferEnabled, draggedBody, dragOffset,
                    view, worldBoundsX, worldBoundsY, lastTime, accumulator, pc, build,
                    compositions, issued >>

\* endDrag (pointerup, pointercancel) while a drag is on
EndDrag ==
    /\ pc = "idle"
    /\ budget.inputs > 0
    /\ draggedBody # 0
    /\ bodies' = IF draggedBody = Stale THEN bodies
                 ELSE [bodies EXCEPT ![draggedBody].isDragged = FALSE]
    /\ draggedBody' = 0
    /\ dragOffset' = NoPos
    /\ lastDragPos' = NoPos
    /\ last' = Op("endDrag")
    /\ spendInput
    /\ UNCHANGED << physicsEnabled, nextBodyId, colorTransferEnabled, pointerPos, view,
                    worldBoundsX, worldBoundsY, lastTime, accumulator, pc, build, compositions,
                    issued >>

-----------------------------------------------------------------------------
(* The program: every handler, one at a time *)

Next ==
    \/ \E s \in 1..Len(Seeds) : CreateScene(s)
    \/ \E s \in 1..Len(Seeds) : RegenerateComposition(s)
    \/ AddShape
    \/ FinishBuild
    \/ \E e \in FrameTimes : AnimateBegin(e)
    \/ Step
    \/ AnimateEnd
    \/ Play
    \/ Pause
    \/ ToggleColorTransfer
    \/ \E w \in 1..Len(TableWidths) : OnResize(w)
    \/ \E i \in 1..NumShapes : \E off \in GrabOffsets : OnPointerDown(i, off)
    \/ \E d \in PointerMoves : OnPointerMove(d)
    \/ EndDrag

Spec == Init /\ [][Next]_vars

-----------------------------------------------------------------------------
(* The simulation alone: the runs that start when a build has just finished, *)
(* with no later rebuild and no resize.  A pointerdown and pointerup on a    *)
(* body leave it at rest, so the registry may also start with every body     *)
(* tapped to rest while the simulation is still running.                     *)

\* a body after pointerdown and pointerup
tapped(body) == [grabbed(body) EXCEPT !.isDragged = FALSE]
tappedAll(bs) == [i \in 1..Len(bs) |-> tapped(bs[i])] \o <<>>

\* the state after createShapes built c for seed s in the window w
builtState(s, w, c, bs) ==
    /\ bodies = bs
    /\ physicsEnabled = TRUE
    /\ nextBodyId = c.final.nextBodyId
    /\ colorTransferEnabled = FALSE
    /\ draggedBody = 0
    /\ dragOffset = NoPos
    /\ lastDragPos = NoPos
    /\ pointerPos = Vec(0, 0)
    /\ view = w
    /\ worldBoundsX = HalfWidths[w]
    /\ worldBoundsY = halfHeight
    /\ lastTime = 0
    /\ accumulator = 0
    /\ pc = "idle"
    /\ build = NoBuild
    /\ compositions = NoCompositions
    /\ issued = 1..(c.final.nextBodyId - 1)
    /\ last = [OpOf("finishBuild", c.steps[NumShapes + 1].bodies, FALSE) EXCEPT !.seed = s]
    /\ budget = [builds |-> 0, inputs |-> MaxSimInputs, frames |-> MaxSimFrames]

\* where the simulation starts: the build (seed, window), and whether its
\* bodies have been tapped to rest
SimStarts ==
    { << 1, 1, FALSE >>, << 1, 2, FALSE >>, << 1, 2, TRUE >>, << 2, 2, FALSE >>,
      << 1, 3, FALSE >>, << 1, 3, TRUE >>, << 1, 4, FALSE >> }

startedFrom(s, w, c, rest) ==
    builtState(s, w, c, IF rest THEN tappedAll(c.final.bodies) ELSE c.final.bodies)

\* createShapes for seed s in the window w
compositionOf(s, w) ==
    IF w <= Len(TableWidths) THEN Compositions[s][w]
    ELSE createShapes(createRng(Seeds[s]), HalfWidths[w], halfHeight)

InitSim == \E st \in SimStarts : startedFrom(st[1], st[2], compositionOf(st[1], st[2]), st[3])

NextSim ==
    \/ \E e \in FrameTimes : AnimateBegin(e)
    \/ Step
    \/ AnimateEnd
    \/ Play
    \/ Pause
    \/ ToggleColorTransfer
    \/ \E i \in 1..NumShapes : \E off \in GrabOffsets : OnPointerDown(i, off)
    \/ \E d \in PointerMoves : OnPointerMove(d)
    \/ EndDrag

SpecSim == InitSim /\ [][NextSim]_vars

-----------------------------------------------------------------------------
(* The first build alone: the page loads in any window, narrow or wide, and *)
(* createScene builds its composition.                                      *)

loadedIn(w) ==
    /\ bodies = <<>>
    /\ physicsEnabled = FALSE
    /\ nextBodyId = 1
    /\ colorTransferEnabled = FALSE
    /\ draggedBody = 0
    /\ dragOffset = NoPos
    /\ lastDragPos = NoPos
    /\ pointerPos = Vec(0, 0)
    /\ view = w
    /\ worldBoundsX = defaultBoundsX
    /\ worldBoundsY = defaultBoundsY
    /\ lastTime = NoTime
    /\ accumulator = 0
    /\ pc = "load"
    /\ build = NoBuild
    /\ compositions = NoCompositions
    /\ issued = {}
    /\ last = OpOf("load", <<>>, FALSE)
    /\ budget = [builds |-> 1, inputs |-> 0, frames |-> 0]

InitWide == \E w \in 1..Len(HalfWidths) : loadedIn(w)

NextWide ==
    \/ \E s \in 1..Len(Seeds) : CreateScene(s)
    \/ AddShape
    \/ FinishBuild

SpecWide == InitWide /\ [][NextWide]_vars

-----------------------------------------------------------------------------
(* placeMesh on a registry of two circles: the shape call of the third      *)
(* circle of createShapes (addCircle 0.3, 0.65, 0.8), in any order, with    *)
(* the first circle at the centre and the second one beside it.             *)

\* the shape calls of createShapes that are circles
CircleCalls == {k \in 1..NumShapes : ShapeCalls[k].kind = "circle"}

\* the orders (first, second, third) of the three circles
CircleOrders ==
    {o \in CircleCalls \X CircleCalls \X CircleCalls : Cardinality({o[1], o[2], o[3]}) = 3}

\* the directions from the first circle to the second (0, 30, 180 and 330
\* degrees) and the gaps between the two contact circles
SecondAngles == {0, 5236, 15708, 26180, 31416, 36652, 57596}
SecondGaps == {0, 3, 1000, 20000}

\* the second circle, at the distance dist from the centre in direction angle
secondAt(k, angle, dist) ==
    newBody(2, meshOf(k, 1, 0), Vec(Mul(Cos(angle), dist), Mul(Sin(angle), dist)))

\* halfHeight * camera.aspect of a 16:9 window, and its place after the
\* windows of the runs
landscapeWidth == 39237
LandscapeView == Len(HalfWidths) + 1

\* the state before the third circle's shape call, the second circle lying
\* inside the world
twoCircles(o, first, second) ==
    /\ bodies = << first, second >>
    /\ Abs(second.x) <= landscapeWidth - second.boundingRadius
    /\ Abs(second.y) <= halfHeight - second.boundingRadius
    /\ physicsEnabled = FALSE
    /\ nextBodyId = 3
    /\ colorTransferEnabled = FALSE
    /\ draggedBody = 0
    /\ dragOffset = NoPos
    /\ lastDragPos = NoPos
    /\ pointerPos = Vec(0, 0)
    /\ view = LandscapeView
    /\ worldBoundsX = landscapeWidth
    /\ worldBoundsY = halfHeight
    /\ lastTime = NoTime
    /\ accumulator = 0
    /\ pc = "build"
    /\ build = [seed |-> 1, k |-> o[3], h |-> createRng(Seeds[1]),
                avail |-> SubSeq(PresetIndices, 3, COLOR_PRESETS), trace |-> <<>>]
    /\ compositions = NoCompositions
    /\ issued = {1, 2}
    /\ last = OpOf("createScene", <<>>, FALSE)
    /\ budget = [builds |-> 1, inputs |-> 0, frames |-> 0]

InitThird ==
    \E o \in CircleOrders : \E angle \in SecondAngles : \E gap \in SecondGaps :
            twoCircles(o, newBody(1, meshOf(o[1], 0, 0), Vec(0, 0)),
                       secondAt(o[2], angle,
                                Shapes[o[1]].contactRadius + Shapes[o[2]].contactRadius + gap))

\* addCircle for the third circle
AddThirdCircle == Len(bodies) = 2 /\ AddShape

SpecThird == InitThird /\ [][AddThirdCircle]_vars

-----------------------------------------------------------------------------
(* placeMesh on a registry of four bodies: the shape call of the large       *)
(* circle (addCircle 0.8) with the small circle at the centre, the small     *)
(* triangle on its left, and the middle circle and the large triangle around *)
(* the point on its right where the large circle touches it.                 *)

\* the point beside the small circle where the large one touches it
pocketAt == Vec(Shapes[1].contactRadius + Shapes[9].contactRadius, 0)

\* how far to the left of the centre the small triangle lies, and its
\* rotations
SmallTriangleDists == {6000}
SmallTriangleRotations == {0, 1745}

\* the directions from the point to the middle circle and to the large
\* triangle (90 to 110 and -10 to 10 degrees), how far the triangle lies
\* beyond its contact distance, and its rotations
MiddleAngles == {15708, 17453, 19199}
TriangleAngles == {-1745, 0, 1745}
TriangleGaps == {0, 200, 400}
TriangleRotations == {5236, 4363}

\* a body of shape call k with the given id, at the distance dist from the
\* point in direction angle
besidePocket(id, k, rot, angle, dist) ==
    newBody(id, meshOf(k, id - 1, rot),
            Vec(pocketAt.x + Mul(Cos(angle), dist), pocketAt.y + Mul(Sin(angle), dist)))

\* do the bodies a and b lie apart, as placeMesh leaves two bodies
apart(a, b) == ~polygonPolygonSAT(bodyPolygon(a), bodyPolygon(b)).hit

\* the state before the large circle's shape call
fourBodies(bs) ==
    /\ bodies = bs
    /\ \A i \in 1..4 : \A j \in (i + 1)..4 : apart(bs[i], bs[j])
    /\ \A i \in 1..4 : /\ Abs(bs[i].x) <= landscapeWidth - bs[i].boundingRadius
                       /\ Abs(bs[i].y) <= halfHeight - bs[i].boundingRadius
    /\ physicsEnabled = FALSE
    /\ nextBodyId = 5
    /\ colorTransferEnabled = FALSE
    /\ draggedBody = 0
    /\ dragOffset = NoPos
    /\ lastDragPos = NoPos
    /\ pointerPos = Vec(0, 0)
    /\ view = LandscapeView
    /\ worldBoundsX = landscapeWidth
    /\ worldBoundsY = halfHeight
    /\ lastTime = NoTime
    /\ accumulator = 0
    /\ pc = "build"
    /\ build = [seed |-> 1, k |-> 9, h |-> createRng(Seeds[1]),
                avail |-> SubSeq(PresetIndices, 5, COLOR_PRESETS), trace |-> <<>>]
    /\ compositions = NoCompositions
    /\ issued = 1..4
    /\ last = OpOf("createScene", <<>>, FALSE)
    /\ budget = [builds |-> 1, inputs |-> 0, frames |-> 0]

InitPocket ==
    \E d3 \in SmallTriangleDists : \E r3 \in SmallTriangleRotations :
        \E a5 \in MiddleAngles : \E a8 \in TriangleAngles : \E gap \in TriangleGaps :
            \E r8 \in TriangleRotations :
                fourBodies(<< newBody(1, meshOf(1, 0, 0), Vec(0, 0)),
                              newBody(2, meshOf(3, 1, r3), Vec(-d3, 0)),
                              besidePocket(3, 5, 0, a5,
                                           Shapes[5].contactRadius + Shapes[9].contactRadius),
                              besidePocket(4, 8, r8, a8,
                                           Shapes[8].contactRadius + Shapes[9].contactRadius
                                               + gap) >>)

\* addCircle for the large circle
AddLargeCircle == Len(bodies) = 4 /\ AddShape

SpecPocket == InitPocket /\ [][AddLargeCircle]_vars

-----------------------------------------------------------------------------
(* The frames alone: animate called again and again on a built composition,  *)
(* with no input between the frames.                                         *)

\* how many frames a run of the frames alone may hold
MaxClockFrames == 4

\* the builds (seed, window) the frames start from
ClockStarts == { << 1, 3 >>, << 2, 2 >> }

InitClock ==
    \E st \in ClockStarts :
        /\ bodies = Compositions[st[1]][st[2]].final.bodies
        /\ physicsEnabled = TRUE
        /\ nextBodyId = Compositions[st[1]][st[2]].final.nextBodyId
        /\ colorTransferEnabled = FALSE
        /\ draggedBody = 0
        /\ dragOffset = NoPos
        /\ lastDragPos = NoPos
        /\ pointerPos = Vec(0, 0)
        /\ view = st[2]
        /\ worldBoundsX = HalfWidths[st[2]]
        /\ worldBoundsY = halfHeight
        /\ lastTime = 0
        /\ accumulator = 0
        /\ pc = "idle"
        /\ build = NoBuild
        /\ compositions = NoCompositions
        /\ issued = 1..(Compositions[st[1]][st[2]].final.nextBodyId - 1)
        /\ last = [OpOf("finishBuild", Compositions[st[1]][st[2]].steps[NumShapes + 1].bodies,
                        FALSE) EXCEPT !.seed = st[1]]
        /\ budget = [builds |-> 0, inputs |-> 0, frames |-> MaxClockFrames]

NextClock ==
    \/ \E e \in FrameTimes : AnimateBegin(e)
    \/ Step
    \/ AnimateEnd

SpecClock == InitClock /\ [][NextClock]_vars

-----------------------------------------------------------------------------
(* The frames and the window: animate on a built composition, and the window *)
(* resized between the frames.                                               *)

\* how many frames and resizes a run of the frames and the window may hold
MaxResizeFrames == 3
MaxResizes == 1

\* the builds (seed, window) the frames start from
ResizeStarts == { << 1, 3 >>, << 2, 2 >> }

\* the page some frames after createShapes for seed s in the window w
runningFrom(s, w, b) ==
    /\ bodies = Compositions[s][w].final.bodies
    /\ physicsEnabled = TRUE
    /\ nextBodyId = Compositions[s][w].final.nextBodyId
    /\ colorTransferEnabled = FALSE
    /\ draggedBody = 0
    /\ dragOffset = NoPos
    /\ lastDragPos = NoPos
    /\ pointerPos = Vec(0, 0)
    /\ view = w
    /\ worldBoundsX = HalfWidths[w]
    /\ worldBoundsY = halfHeight
    /\ lastTime = 0
    /\ accumulator = 0
    /\ pc = "idle"
    /\ build = NoBuild
    /\ compositions = NoCompositions
    /\ issued = 1..(Compositions[s][w].final.nextBodyId - 1)
    /\ last = [OpOf("finishBuild", Compositions[s][w].steps[NumShapes + 1].bodies, FALSE)
                  EXCEPT !.seed = s]
    /\ budget = b

InitResize ==
    \E st \in ResizeStarts :
        runningFrom(st[1], st[2],
                    [builds |-> 0, inputs |-> MaxResizes, frames |-> MaxResizeFrames])

NextResize ==
    \/ \E e \in FrameTimes : AnimateBegin(e)
    \/ Step
    \/ AnimateEnd
    \/ \E w \in 1..Len(TableWidths) : OnResize(w)

SpecResize == InitResize /\ [][NextResize]_vars

-----------------------------------------------------------------------------
(* The frames until the scene settles: animate called again and again on a   *)
(* built composition that nobody touches.                                    *)

\* how many frames a run until the scene settles may hold
MaxHaltFrames == 100

\* the builds (seed, window) the frames start from
HaltStarts == { << 1, 3 >>, << 2, 2 >> }

\* the time between two frames: a slow display, every frame clamped to 0.05
\* and run as five steps (what the bodies do depends on the number of steps
\* alone, not on the frames that hold them)
HaltFrameTimes == {600}

InitHalt ==
    \E st \in HaltStarts :
        runningFrom(st[1], st[2], [builds |-> 0, inputs |-> 0, frames |-> MaxHaltFrames])

NextHalt ==
    \/ \E e \in HaltFrameTimes : AnimateBegin(e)
    \/ Step
    \/ AnimateEnd

\* a turn of the while loop of animate, as far as the accumulator goes: every
\* Step is one, and Step can be taken wherever one can
loopTurn ==
    /\ pc = "frame"
    /\ accumulator >= fixedStep
    /\ accumulator' = accumulator - fixedStep

\* requestAnimationFrame calls animate again after every frame, and a frame
\* runs its while loop to the end
SpecHalt ==
    /\ InitHalt
    /\ [][NextHalt]_vars
    /\ WF_vars(\E e \in HaltFrameTimes : AnimateBegin(e))
    /\ WF_accumulator(loopTurn)
    /\ WF_vars(AnimateEnd)

-----------------------------------------------------------------------------
(* The frames and the play button: animate on a built composition, paused    *)
(* and resumed between the frames.                                           *)

\* how many frames and clicks a run of the frames and the play button may hold
MaxPauseFrames == 3
MaxPauseClicks == 2

\* the builds (seed, window) the frames start from
PauseStarts == { << 1, 3 >>, << 2, 2 >> }

InitPause ==
    \E st \in PauseStarts :
        runningFrom(st[1], st[2],
                    [builds |-> 0, inputs |-> MaxPauseClicks, frames |-> MaxPauseFrames])

NextPause ==
    \/ \E e \in FrameTimes : AnimateBegin(e)
    \/ Step
    \/ AnimateEnd
    \/ Play
    \/ Pause

SpecPause == InitPause /\ [][NextPause]_vars

-----------------------------------------------------------------------------
(* The properties of the registry, the builds and the dragging *)

\* the bodies of the registry bs whose dragged flag is set
draggedIn(bs) == {i \in 1..Len(bs) : bs[i].isDragged}

\* the (seed, window) pairs whose composition has been built
built == {sw \in (1..Len(Seeds)) \X (1..Len(HalfWidths)) : compositions[sw[1]][sw[2]] # <<>>}

\* C4: a build with a seed that has been built before in the same window
\* repeats the recorded composition shape call by shape call, and ends with
\* the same body count and, body by body, the same position, rotation, colour
\* index, linear velocity and angular velocity
C4_RebuildRepeats ==
    /\ (pc = "build" /\ compositions[build.seed][view] # <<>>)
          => composed(bodies) = compositions[build.seed][view][build.k]
    /\ last.op = "finishBuild"
          => composed(bodies) = compositions[last.seed][view][NumShapes + 2]

\* a second build of the one composition built so far has finished, after a
\* drag that the rebuild cut short and a frame in between
C4_Rebuilt ==
    /\ last.op = "finishBuild"
    /\ budget.builds <= MaxBuilds - 2
    /\ Cardinality(built) = 1
    /\ draggedBody = Stale
    /\ budget.frames < MaxFrames
    /\ Len(bodies) > 1

\* C7: at most one body of the registry has its dragged flag set
C7_AtMostOneDragged == Cardinality(draggedIn(bodies)) <= 1

\* C8: an id that addBodyEntry hands out has not been handed out before in
\* the session, and is greater than every id handed out before
C8_IdsNeverReused ==
    last.newId # 0 =>
        /\ last.newId \notin last.issued
        /\ \A id \in last.issued : id < last.newId

\* C9: physics is paused while the page loads and while createShapes places
\* shapes, and every build that finishes leaves it running
C9_PausedUntilBuilt ==
    /\ pc \in {"load", "build"} => ~physicsEnabled
    /\ last.op = "finishBuild" => physicsEnabled

\* a rebuild that could place no shape has finished
C9_EmptyRebuild ==
    /\ last.op = "finishBuild"
    /\ budget.builds <= MaxBuilds - 2
    /\ bodies = <<>>
    /\ physicsEnabled

-----------------------------------------------------------------------------
(* The properties of the simulation step and of the play button *)

\* the last operation was updatePhysics with physics running
stepped == last.op = "updatePhysics" /\ last.physicsEnabled

\* is the body slower than both pause thresholds
belowEps(body) ==
    Hypot(body.vx, body.vy) < linearEps /\ Abs(body.angularVelocity) < angularEps

\* no body of bs is dragged and each one is slower than the thresholds
allSettled(bs) == \A i \in 1..Len(bs) : ~bs[i].isDragged /\ belowEps(bs[i])

\* C1: a running step that starts with every body slower than the pause
\* thresholds and with no body dragged leaves physics paused
C1_AutoPause == (stepped /\ allSettled(last.bodies)) => ~physicsEnabled

\* is body i one of the two bodies of some collision of hits
inHits(hits, i) == \E k \in 1..Len(hits) : i \in {hits[k][1], hits[k][2]}

\* C2: a running step leaves the position and the rotation of every dragged
\* body as they were, and scales its linear velocity toward zero
C2_DraggedStaysPut ==
    stepped =>
        \A i \in draggedIn(last.bodies) :
            /\ bodies[i].x = last.bodies[i].x
            /\ bodies[i].y = last.bodies[i].y
            /\ bodies[i].rot = last.bodies[i].rot
            /\ Abs(bodies[i].vx) <= Abs(last.bodies[i].vx)
            /\ Abs(bodies[i].vy) <= Abs(last.bodies[i].vy)
            /\ bodies[i].vx * last.bodies[i].vx >= 0
            /\ bodies[i].vy * last.bodies[i].vy >= 0

\* a step resolved an approaching collision of a dragged body that the
\* pointer was moving
C2_DraggedHit ==
    /\ stepped
    /\ \E i \in draggedIn(last.bodies) :
          /\ inHits(last.hits, i)
          /\ last.bodies[i].vx # 0 \/ last.bodies[i].vy # 0
          /\ Abs(bodies[i].vx) + Abs(bodies[i].vy)
                < Abs(last.bodies[i].vx) + Abs(last.bodies[i].vy)

\* the colour indices of the registry bs, in registry order
coloursOf(bs) == [i \in 1..Len(bs) |-> bs[i].colorIndex]

\* the colours after the bodies of each collision of hits[k..], in the order
\* the step resolved them, have exchanged theirs
RECURSIVE exchanged(_, _, _)
exchanged(colours, hits, k) ==
    IF k > Len(hits) THEN colours
    ELSE exchanged([colours EXCEPT ![hits[k][1]] = colours[hits[k][2]],
                                   ![hits[k][2]] = colours[hits[k][1]]], hits, k + 1)

\* how many bodies of bs have the colour index c
colourCount(bs, c) == Cardinality({i \in 1..Len(bs) : bs[i].colorIndex = c})

\* C3: with the colour exchange on, a step exchanges the colour indices of
\* the two bodies of every approaching collision it resolves and changes no
\* other; no operation on a built registry changes how many bodies have each
\* colour index
C3_ColoursExchanged ==
    /\ (stepped /\ colorTransferEnabled)
          => coloursOf(bodies) = exchanged(coloursOf(last.bodies), last.hits, 1)
    /\ \A c \in 0..(COLOR_PRESETS - 1) : colourCount(bodies, c) = colourCount(last.bodies, c)

\* a step with the colour exchange on resolved an approaching collision, and
\* the colours are no longer where they were
C3_Exchanged ==
    /\ stepped
    /\ colorTransferEnabled
    /\ last.hits # <<>>
    /\ coloursOf(bodies) # coloursOf(last.bodies)

\* is the body's velocity one that applyPlayImpulse can give it; the bounds
\* allow for the rounding of the two components
impulseSpeed(body) ==
    /\ Hypot(body.vx, body.vy) >= Mul(playSpeedMin, speedScaleOr1(body)) - 3
    /\ Hypot(body.vx, body.vy)
          <= Mul(playSpeedMin + playSpeedRange, speedScaleOr1(body)) + 3
    /\ 2 * Abs(body.angularVelocity) <= Mul(spinBase, speedScaleOr1(body))

\* C10: the play button while paused sets physics running, gives every body
\* that is not dragged a velocity and spin of applyPlayImpulse, and changes
\* neither the velocity or spin of a dragged body nor the position, rotation,
\* id or colour index of any body; the play button while running pauses and
\* changes no body
C10_PlayAndPause ==
    /\ last.op = "play" =>
          /\ ~last.physicsEnabled
          /\ physicsEnabled
          /\ Len(bodies) = Len(last.bodies)
          /\ \A i \in 1..Len(bodies) :
                /\ bodies[i].x = last.bodies[i].x
                /\ bodies[i].y = last.bodies[i].y
                /\ bodies[i].rot = last.bodies[i].rot
                /\ bodies[i].id = last.bodies[i].id
                /\ bodies[i].colorIndex = last.bodies[i].colorIndex
                /\ IF last.bodies[i].isDragged
                   THEN /\ bodies[i].vx = last.bodies[i].vx
                        /\ bodies[i].vy = last.bodies[i].vy
                        /\ bodies[i].angularVelocity = last.bodies[i].angularVelocity
                   ELSE impulseSpeed(bodies[i])
    /\ last.op = "pause" => (last.physicsEnabled /\ ~physicsEnabled /\ bodies = last.bodies)

\* play was pressed while one body was being dragged at some velocity and
\* another body lay at rest
C10_ResumedMidDrag ==
    /\ last.op = "play"
    /\ \E i \in draggedIn(last.bodies) : last.bodies[i].vx # 0 \/ last.bodies[i].vy # 0
    /\ \E j \in 1..Len(bodies) :
          /\ ~last.bodies[j].isDragged
          /\ last.bodies[j].vx = 0 /\ last.bodies[j].vy = 0
          /\ bodies[j].vx # 0 \/ bodies[j].vy # 0

-----------------------------------------------------------------------------
(* The properties of the placement *)

\* the pairs (i, j), i < j, of bodies of the registry
bodyPairs == {p \in (1..Len(bodies)) \X (1..Len(bodies)) : p[1] < p[2]}

\* the placement test of evaluateCandidate on the placed bodies a and b
overlapsTooMuch(a, b) ==
    IF a.shapeType = "circle" /\ b.shapeType = "circle"
    THEN 100 * Hypot(a.x - b.x, a.y - b.y) < 97 * (a.contactRadius + b.contactRadius)
    ELSE /\ polygonPolygonSAT(bodyPolygon(a), bodyPolygon(b)).hit
         /\ polygonPolygonSAT(bodyPolygon(a), bodyPolygon(b)).depth > satTolerance

\* C5: when a build ends, no two placed circles are closer than 97% of the
\* sum of their contact radii, and no other two placed bodies penetrate each
\* other deeper than the placement tolerance
C5_PlacedApart ==
    last.op = "finishBuild" =>
        \A p \in bodyPairs : ~overlapsTooMuch(bodies[p[1]], bodies[p[2]])

\* a build ended with two circles among its bodies and with two other
\* bodies that penetrate each other within the tolerance
C5_PlacedInContact ==
    /\ last.op = "finishBuild"
    /\ \E p \in bodyPairs :
          bodies[p[1]].shapeType = "circle" /\ bodies[p[2]].shapeType = "circle"
    /\ \E p \in bodyPairs :
          /\ bodies[p[1]].shapeType # "circle" \/ bodies[p[2]].shapeType # "circle"
          /\ polygonPolygonSAT(bodyPolygon(bodies[p[1]]), bodyPolygon(bodies[p[2]])).hit
          /\ polygonPolygonSAT(bodyPolygon(bodies[p[1]]), bodyPolygon(bodies[p[2]])).depth > 0

\* C6: when a build ends, every world-space vertex of every placed body lies
\* inside the world bounds shrunk by the placement margin
C6_InsideMargin ==
    last.op = "finishBuild" =>
        \A i \in 1..Len(bodies) :
            \A k \in 1..Len(getWorldVertices(bodies[i])) :
                vertexInBounds(getWorldVertices(bodies[i])[k].x,
                               getWorldVertices(bodies[i])[k].y, worldBoundsX, worldBoundsY)

-----------------------------------------------------------------------------
(* The properties of the window, the walls and the build's failures *)

\* does the bounding circle of the body lie inside the bounds bx, by
insideWorld(body, bx, by) ==
    /\ Abs(body.x) <= bx - body.boundingRadius
    /\ Abs(body.y) <= by - body.boundingRadius

\* C11: right after onResize, the centre of every body whose bounding circle
\* fits in the new world bounds lies inside the bounds reduced by its
\* bounding radius, and the handler has not placed any body anew
C11_ClampedOnResize ==
    last.op = "onResize" =>
        /\ \A i \in 1..Len(bodies) :
              bodies[i].boundingRadius <= worldBoundsX
                  => insideWorld(bodies[i], worldBoundsX, worldBoundsY)
        /\ composed(bodies) = composed(last.bodies)

\* is the registry bs a single body that is not dragged and whose bounding
\* circle fits in the bounds bx, by
aloneAndFits(bs, bx, by) ==
    /\ Len(bs) = 1
    /\ ~bs[1].isDragged
    /\ bs[1].boundingRadius <= bx
    /\ bs[1].boundingRadius <= by

\* C12: a running step on a registry of one body that is not dragged and
\* whose bounding circle fits in the world bounds leaves the bounding circle
\* inside the bounds and makes neither component of its velocity larger
C12_AloneStaysInside ==
    (stepped /\ aloneAndFits(last.bodies, worldBoundsX, worldBoundsY)) =>
        /\ insideWorld(bodies[1], worldBoundsX, worldBoundsY)
        /\ Abs(bodies[1].vx) <= Abs(last.bodies[1].vx)
        /\ Abs(bodies[1].vy) <= Abs(last.bodies[1].vy)

\* a step has bounced a lone body off a side wall
C12_AloneBounced ==
    /\ stepped
    /\ aloneAndFits(last.bodies, worldBoundsX, worldBoundsY)
    /\ bodies[1].vx * last.bodies[1].vx < 0
    /\ Abs(bodies[1].x) = worldBoundsX - bodies[1].boundingRadius

\* C13: a shape call adds one body to the end of the registry or none, and
\* leaves the bodies placed before as they were; createShapes makes all its
\* shape calls whatever fails, and ends with at most one body per shape
\* call, stored in the order of the calls
C13_FailureOmitsShape ==
    /\ pc = "build" => (build.k \in 1..(NumShapes + 1) /\ Len(build.trace) = build.k)
    /\ last.op = "addShape" =>
          /\ Len(bodies) \in {Len(last.bodies), Len(last.bodies) + 1}
          /\ SubSeq(bodies, 1, Len(last.bodies)) = last.bodies
          /\ Len(bodies) < build.k
    /\ last.op = "finishBuild" =>
          /\ Len(bodies) \in 0..NumShapes
          /\ Len(compositions[last.seed][view]) = NumShapes + 2
          /\ \A i \in 1..Len(bodies) : \A j \in 1..Len(bodies) :
                i < j => (bodies[i].shape < bodies[j].shape /\ bodies[i].id < bodies[j].id)

\* a build has ended in which a shape was omitted and a later shape placed
C13_PlacedAfterFailure ==
    /\ last.op = "finishBuild"
    /\ Len(bodies) \in 1..(NumShapes - 1)
    /\ bodies[Len(bodies)].shape > Len(bodies)

\* the registry bs is two circles, and the third-circle construction of
\* placeMesh has a point for shape call k inside the bounds bx, by
thirdCircleFound(bs, k, bx, by) ==
    /\ Len(bs) = 2
    /\ bs[1].shapeType = "circle" /\ bs[2].shapeType = "circle"
    /\ Shapes[k].shapeType = "circle"
    /\ thirdCircle(bs, meshOf(k, 0, 0), bx, by).ok

\* is the centre distance of the circles a and c their ideal contact
\* distance, within the 4% of the special case
tangent(a, c) ==
    Abs(Hypot(c.x - a.x, c.y - a.y) - (a.contactRadius + c.contactRadius))
        <= Mul(a.contactRadius + c.contactRadius, 400)

\* C14: when addCircle runs on a registry of two circles and the
\* third-circle construction has a point inside the bounds, the new circle
\* is added tangent to both circles, and the two circles are as they were
C14_ThirdCircleTangent ==
    (last.op = "addShape"
        /\ thirdCircleFound(last.bodies, build.k - 1, worldBoundsX, worldBoundsY))
    => /\ Len(bodies) = 3
       /\ SubSeq(bodies, 1, 2) = last.bodies
       /\ tangent(bodies[1], bodies[3])
       /\ tangent(bodies[2], bodies[3])

\* the third circle has been placed by the special case, beside two circles
\* that do not touch
C14_ThirdPlaced ==
    /\ last.op = "addShape"
    /\ thirdCircleFound(last.bodies, build.k - 1, worldBoundsX, worldBoundsY)
    /\ Len(bodies) = 3
    /\ Hypot(bodies[2].x, bodies[2].y) > bodies[1].contactRadius + bodies[2].contactRadius + 3

\* is no candidate of the list in contact with more bodies than the
\* candidates at the position (x, y)
mostContacts(candidates, x, y) ==
    \A i \in 1..Len(candidates) : \A j \in 1..Len(candidates) :
        (candidates[j].x = x /\ candidates[j].y = y)
            => candidates[i].contacts <= candidates[j].contacts

\* the candidates placeMesh evaluated for shape call k at rotation rot on
\* the registry bs
candidatesOf(bs, k, rot, bx, by) ==
    generateCandidates(bs, [i \in 1..Len(bs) |-> bodyPolygon(bs[i])] \o <<>>,
                       meshOf(k, 0, rot), bx, by)

drawnRotation(h, a) == Mul(RngFix(mulberry32(advance(h, a)).u), TwoPi)

\* does placeMesh fail for shape call k at each rotation drawn before attempt a
failedBefore(bs, k, h, a, bx, by) ==
    \A e \in 0..(a - 1) : ~placeMesh(bs, meshOf(k, 0, drawnRotation(h, e)), bx, by).ok

\* shape call k, which started with the registry bs and the generator in
\* state h (after takePresetIndex), has left the generator in state h2 and
\* the registry as it was (placed = <<>>) or with one more body placed[1]
boundedAttempts(bs, k, h, h2, placed, bx, by) ==
    IF Shapes[k].shapeType = "circle"
    THEN h2 = h /\ \A i \in 1..Len(placed) : placed[i].rot = 0
    ELSE IF placed = <<>> THEN h2 = advance(h, Shapes[k].maxAttempts)
    ELSE \E a \in 0..(Shapes[k].maxAttempts - 1) :
            /\ h2 = advance(h, a + 1)
            /\ placed[1].rot = drawnRotation(h, a)
            /\ failedBefore(bs, k, h, a, bx, by)

\* C16: a shape call draws no rotation for a circle, and for a rectangle or
\* a triangle one rotation per attempt, at most rectAttempts or triAttempts;
\* the attempts stop at the first rotation at which placeMesh succeeds, and
\* the body has that rotation
C16_BoundedAttempts ==
    /\ Shapes[1].maxAttempts = 1 /\ Shapes[2].maxAttempts = 12 /\ Shapes[3].maxAttempts = 10
    /\ last.op = "addShape" =>
          boundedAttempts(last.bodies, build.k - 1, advance(last.h, 1), build.h,
                          SubSeq(bodies, Len(last.bodies) + 1, Len(bodies)),
                          worldBoundsX, worldBoundsY)

\* a rectangle or a triangle has been placed at a later attempt than its
\* first, and another could not be placed at all
C16_LaterAttempt ==
    /\ last.op = "addShape"
    /\ Len(bodies) > Len(last.bodies)
    /\ Len(bodies) < build.k - 2
    /\ bodies[Len(bodies)].shapeType # "circle"
    /\ bodies[Len(bodies)].rot # drawnRotation(advance(last.h, 1), 0)

\* C17: a running step leaves the angular velocity of a dragged body at
\* zero, also when the step resolves a collision of that body
C17_PinnedNoSpin ==
    stepped =>
        \A i \in draggedIn(last.bodies) :
            last.bodies[i].angularVelocity = 0 => bodies[i].angularVelocity = 0

\* C18: physics that is paused before an operation is running after it only
\* if the operation is the play button or the end of a build; a frame, a
\* step, a pointer event, a resize and the colour button leave it paused
C18_PausedStaysPaused ==
    (~last.physicsEnabled /\ physicsEnabled) => last.op \in {"play", "finishBuild"}

\* a step has run while paused and has left physics paused, with a body in
\* the registry that is dragged or faster than the pause thresholds
C18_PausedTick ==
    /\ last.op = "updatePhysics"
    /\ ~last.physicsEnabled
    /\ ~physicsEnabled
    /\ anyMoving(bodies)

maxSteps == maxFrameDt \div fixedStep

\* C20: a frame adds at most maxFrameDt to the accumulator, whatever time
\* has passed; each step takes fixedStep from an accumulator that holds at
\* least that much; a frame runs at most maxSteps steps, and ends with the
\* accumulator at least 0 and less than fixedStep
C20_FixedStepAccumulator ==
    /\ accumulator >= 0
    /\ last.op = "animate" =>
          /\ accumulator >= last.accumulator
          /\ accumulator - last.accumulator <= maxFrameDt
    /\ last.op = "updatePhysics" =>
          /\ last.accumulator >= fixedStep
          /\ accumulator = last.accumulator - fixedStep
          /\ last.steps <= maxSteps
    /\ pc = "idle" => accumulator < fixedStep

\* a frame that came later than maxFrameDt after the one before it, and
\* started with time left in the accumulator, has run maxSteps steps and has
\* left time in the accumulator again
C20_LongFrame ==
    /\ last.op = "updatePhysics"
    /\ last.steps = maxSteps
    /\ accumulator > 0
    /\ accumulator < fixedStep

-----------------------------------------------------------------------------
(* The properties of the presets, the candidate tiers, the walls and the     *)
(* pause                                                                     *)

\* the colour indices of the registry bs, as a set
colourSet(bs) == {bs[i].colorIndex : i \in 1..Len(bs)}

\* C21: the colour indices of the registry are pairwise distinct presets;
\* during a build every shape call so far has taken one preset from the pool,
\* placed or not, the pool holds the presets no body has got, without
\* repeats, and it is not empty while shape calls remain
C21_ColoursDistinct ==
    /\ colourSet(bodies) \subseteq 0..(COLOR_PRESETS - 1)
    /\ Cardinality(colourSet(bodies)) = Len(bodies)
    /\ pc = "build" =>
          /\ Len(build.avail) = COLOR_PRESETS - (build.k - 1)
          /\ Cardinality({build.avail[i] : i \in 1..Len(build.avail)}) = Len(build.avail)
          /\ {build.avail[i] : i \in 1..Len(build.avail)} \cap colourSet(bodies) = {}
          /\ build.k <= NumShapes => build.avail # <<>>

\* a step has exchanged colours in a composition that a build with failed
\* shape calls has left
C21_SwappedAfterFailure ==
    /\ stepped
    /\ colorTransferEnabled
    /\ coloursOf(bodies) # coloursOf(last.bodies)
    /\ Len(bodies) < NumShapes

\* has the last operation been a shape call that placed its body through
\* the general case of placeMesh, on a registry that was not empty
placedInGeneral ==
    /\ last.op = "addShape"
    /\ Len(bodies) > Len(last.bodies)
    /\ Len(last.bodies) >= 1
    /\ ~thirdCircleFound(last.bodies, build.k - 1, worldBoundsX, worldBoundsY)

\* the candidates that shape call evaluated
lastCandidates ==
    candidatesOf(last.bodies, build.k - 1, bodies[Len(bodies)].rot, worldBoundsX,
                 worldBoundsY)

\* the contact count the selection asks for on a registry of n bodies
ruleRequired(candidates, n) ==
    IF n >= 2 /\ \E i \in 1..Len(candidates) : candidates[i].contacts >= 2 THEN 2 ELSE 1

\* the indices of the candidates with that many contacts, or of all the
\* candidates when none has as many
eligible(candidates, required) ==
    IF \E i \in 1..Len(candidates) : candidates[i].contacts >= required
    THEN {i \in 1..Len(candidates) : candidates[i].contacts >= required}
    ELSE 1..Len(candidates)

\* is j the first index of least score among the indices E
firstLeast(candidates, E, j) ==
    /\ j \in E
    /\ \A i \in E : \/ candidates[i].score > candidates[j].score
                    \/ candidates[i].score = candidates[j].score /\ i >= j

\* is (x, y) the position of the first candidate of least score among the
\* eligible ones
followsRule(candidates, E, x, y) ==
    \E j \in E : /\ firstLeast(candidates, E, j)
                 /\ candidates[j].x = x /\ candidates[j].y = y

\* C22: the general case places the body at the first candidate of least
\* score among those with at least the required contacts (2 when the
\* registry has two bodies and some candidate has two contacts, else 1), or
\* among all candidates when none has the required contacts
C22_SelectionRule ==
    placedInGeneral =>
        followsRule(lastCandidates,
                    eligible(lastCandidates, ruleRequired(lastCandidates, Len(last.bodies))),
                    bodies[Len(bodies)].x, bodies[Len(bodies)].y)

\* is some candidate after the first of least score among E as good as it
tiedLater(candidates, E) ==
    \E j \in E : /\ firstLeast(candidates, E, j)
                 /\ \E i \in E : i > j /\ candidates[i].score = candidates[j].score
                                 /\ << candidates[i].x, candidates[i].y >>
                                        # << candidates[j].x, candidates[j].y >>

\* the general case has chosen among candidates of which a later one, at
\* another position, had the same least score
C22_TieToFirst ==
    /\ placedInGeneral
    /\ tiedLater(lastCandidates,
                 eligible(lastCandidates, ruleRequired(lastCandidates, Len(last.bodies))))

\* the points of pts that evaluateCandidate accepts for shape call k at
\* rotation rot on the registry bs
legalAmong(bs, k, rot, bx, by, pts) ==
    evaluateAll(bs, [i \in 1..Len(bs) |-> bodyPolygon(bs[i])] \o <<>>, meshOf(k, 0, rot),
                bx, by, pts)

\* the legal candidates of the two-tangent points, of the ring samples and
\* of the grid for the last shape call
lastTangents ==
    IF Len(last.bodies) < 2 THEN <<>>
    ELSE legalAmong(last.bodies, build.k - 1, bodies[Len(bodies)].rot, worldBoundsX,
                    worldBoundsY,
                    twoTangentPoints(last.bodies, Shapes[build.k - 1].contactRadius))
lastRing ==
    legalAmong(last.bodies, build.k - 1, bodies[Len(bodies)].rot, worldBoundsX, worldBoundsY,
               ringPoints(last.bodies, Shapes[build.k - 1].contactRadius))
lastGrid ==
    legalAmong(last.bodies, build.k - 1, bodies[Len(bodies)].rot, worldBoundsX, worldBoundsY,
               gridPoints(worldBoundsX, worldBoundsY, Shapes[build.k - 1].contactRadius))

\* the candidates of the earliest tier that has any
earliestTier(t1, t2, t3) == IF t1 # <<>> THEN t1 ELSE IF t2 # <<>> THEN t2 ELSE t3

\* is the position (x, y) the choice of the selection among candidates alone
chosenAmong(candidates, n, x, y) ==
    /\ candidates # <<>>
    /\ followsRule(candidates, eligible(candidates, ruleRequired(candidates, n)), x, y)

\* C23: the ring has 96 samples per body, and the general case places the
\* body where the selection among the legal two-tangent candidates alone
\* puts it; when there is none, among the legal ring samples alone; when
\* there is none either, among the legal grid points
C23_TiersInOrder ==
    placedInGeneral =>
        /\ Len(ringPoints(last.bodies, Shapes[build.k - 1].contactRadius))
              = 96 * Len(last.bodies)
        /\ chosenAmong(earliestTier(lastTangents, lastRing, lastGrid), Len(last.bodies),
                       bodies[Len(bodies)].x, bodies[Len(bodies)].y)

\* a body has been placed on a ring sample, on a registry of two bodies or
\* more with no legal two-tangent candidate
C23_RingAfterTangents ==
    /\ placedInGeneral
    /\ Len(last.bodies) >= 2
    /\ lastTangents = <<>>
    /\ lastRing # <<>>


\* does shape k of the build fit around the origin of a world of half
\* extents bx and by (placeMesh's test on the first shape)
fitsCentre(k, bx, by) ==
    /\ meshOf(k, 0, 0).boundingRadius <= bx
    /\ meshOf(k, 0, 0).boundingRadius <= by

\* C24: during a build and at its end the body at index 0 of a non-empty
\* registry is at the origin; a shape call on the empty registry places its
\* shape exactly when the shape fits around the origin, so the shapes that do
\* not fit are left out and the first that fits takes the origin
C24_FirstAtOrigin ==
    /\ (pc = "build" \/ last.op = "finishBuild") /\ bodies # <<>>
          => bodies[1].x = 0 /\ bodies[1].y = 0
    /\ last.op = "addShape" /\ last.bodies = <<>>
          => (bodies # <<>> <=> fitsCentre(build.k - 1, worldBoundsX, worldBoundsY))

\* a build has ended whose first shape did not fit: the body at index 0 is a
\* later shape of the sequence
C24_LaterShapeFirst ==
    /\ last.op = "finishBuild"
    /\ bodies # <<>>
    /\ ~fitsCentre(1, worldBoundsX, worldBoundsY)

\* one coordinate of a body after the wall code of a step, when its bounding
\* circle had crossed a wall there: on the wall, and not moving towards it
reflectedAt(crossedPos, r, bound, pos, vel) ==
    /\ crossedPos - r < -bound => (pos = -bound + r /\ vel >= 0)
    /\ crossedPos + r > bound => (pos = bound - r /\ vel <= 0)

\* the body after the "Move bodies" loop of a step is reflected on both axes;
\* moved is the body after the drag, before the position is advanced
reflectedBody(moved, after, bx, by) ==
    /\ reflectedAt(moved.x + Mul(moved.vx, fixedStep), moved.boundingRadius, bx,
                   after.x, after.vx)
    /\ reflectedAt(moved.y + Mul(moved.vy, fixedStep), moved.boundingRadius, by,
                   after.y, after.vy)

\* C25: in a running step, every body that is not dragged and whose bounding
\* circle is smaller than the world bounds is, after the wall code, on the wall it had
\* crossed and not moving towards that wall
C25_ReflectedInward ==
    stepped =>
        \A i \in 1..Len(last.bodies) :
            (/\ ~last.bodies[i].isDragged
             /\ last.bodies[i].boundingRadius < worldBoundsX
             /\ last.bodies[i].boundingRadius < worldBoundsY)
                => reflectedBody(damped(rotated(last.bodies[i])),
                                 moveBody(last.bodies[i], worldBoundsX, worldBoundsY),
                                 worldBoundsX, worldBoundsY)

\* the body is not dragged and no faster than the pause thresholds
atRest(body) ==
    /\ ~body.isDragged
    /\ Hypot(body.vx, body.vy) <= linearEps
    /\ Abs(body.angularVelocity) <= angularEps

\* C26: a running step that ends paused leaves every body of the registry
\* not dragged, with linear speed at most 0.02 and angular speed at most 0.4;
\* a running step on a registry that holds a dragged body ends running
C26_PausesOnlyAtRest ==
    stepped =>
        /\ ~physicsEnabled => \A i \in 1..Len(bodies) : atRest(bodies[i])
        /\ (\E i \in 1..Len(bodies) : bodies[i].isDragged) => physicsEnabled

\* a running step has paused a registry that holds a body
C26_AutoPaused ==
    /\ stepped
    /\ ~physicsEnabled
    /\ bodies # <<>>


C28_DraggedInRegistry ==
    (pc # "build" /\ draggedBody # 0) =>
        /\ draggedBody \in 1..Len(bodies)
        /\ bodies[draggedBody].isDragged

\* C29: at the end of a running step, every body that is not dragged and
\* whose bounding circle is smaller than the world bounds has its bounding
\* circle inside the bounds
C29_InsideAfterStep ==
    stepped =>
        \A i \in 1..Len(bodies) :
            (/\ ~bodies[i].isDragged
             /\ bodies[i].boundingRadius < worldBoundsX
             /\ bodies[i].boundingRadius < worldBoundsY)
                => insideWorld(bodies[i], worldBoundsX, worldBoundsY)

\* C30: a step while paused leaves the registry as it was and physics paused,
\* and takes fixedStep from the accumulator all the same; so between two
\* frames, and when the play button resumes, the accumulator holds less than
\* fixedStep, and no frame of a running simulation runs more than maxSteps
\* steps
C30_PausedFrameDrains ==
    /\ (last.op = "updatePhysics" /\ ~last.physicsEnabled) =>
          /\ bodies = last.bodies
          /\ ~physicsEnabled
          /\ accumulator = last.accumulator - fixedStep
    /\ (pc = "idle" /\ ~physicsEnabled) => accumulator < fixedStep
    /\ last.op = "play" => accumulator < fixedStep
    /\ stepped => last.steps <= maxSteps

\* a long frame while paused has run its last step: maxSteps steps, none of
\* which moved the bodies, which are faster than the pause thresholds, and
\* less than fixedStep is left in the accumulator
C30_PausedFrameDrained ==
    /\ last.op = "updatePhysics"
    /\ ~last.physicsEnabled
    /\ last.steps = maxSteps
    /\ accumulator < fixedStep
    /\ \E i \in 1..Len(bodies) : ~atRest(bodies[i])
====
